---- MODULE Spec2Model ----
(***************************************************************************)
(* Model of the aggregation procedures of the f1-analysis scripts:         *)
(* sector tables (fastest-lap-sectors, sectors-comparisons), qualifying    *)
(* tables (gap-to-pole, quali-telemetry-comparisons), the lap-time         *)
(* backfill and the stints (laps-comparisons, race_pace_strategies), the   *)
(* lap selection of lap-telemetry-comparison, the saving of a chart        *)
(* (save_figure, create_output_folder of every script), the charts per     *)
(* pair of drivers (quali-telemetry-comparisons), the line styles          *)
(* (laps_comparisons), the speed tables (v-comparisons) and the statements *)
(* of main of every script.                                                *)
(*                                                                         *)
(* Durations are counted in ticks; Resolution ticks make one millisecond.  *)
(* A missing duration is NaT, a missing float is NaN.  Every procedure is  *)
(* a pure function of the fetched session; the variables hold the fetched  *)
(* session and the value each procedure returned (or that it raised).      *)
(***************************************************************************)
EXTENDS Integers, Sequences, FiniteSets, TLC

VARIABLES
    stage,                  \* which family of procedures this run exercises
    pc,                     \* number of procedure calls made so far
    laps,                   \* session.laps
    results,                \* session.results
    drivers,                \* the supplied driver list
    fastest_lap_sectors,    \* fastest-lap-sectors: get_fastest_lap_sectors
    fl_sectors_dict,        \* fastest-lap-sectors: get_driver_deltas
    fastest_sectors_dict,   \* fastest-lap-sectors: get_fastest_sectors
    fastest_sector_data,    \* sectors-comparisons: get_fastest_sector_data
    sectors_dict,           \* sectors-comparisons: get_fastest_lap_sectors
    quali_data,             \* gap-to-pole: get_quali_data
    drivers_quali_times,    \* quali-telemetry-comparisons: get_quali_laps
    race_laps,              \* laps-comparisons: pick_racelaps
    transformed_laps,       \* race_pace_strategies: get_laps
    filled_laps,            \* the tables fill_missing_laps returned, in call order
    car_data,               \* quali-telemetry-comparisons: get_quali_laps_car_data
    lap_inputs,             \* lap-telemetry-comparison: the lap selectors lap1, lap2
    get_lap_calls,          \* lap-telemetry-comparison: the outcome of each get_lap call
    quick_laps,             \* laps-comparisons: pick_quicklaps
    stints,                 \* laps-comparisons: create_stints
    stints_table,           \* race_pace_strategies: get_stints
    script,                 \* the script whose charts are being saved
    figures,                \* number of charts the run saves
    figure,                 \* the chart save_figure is working on
    output_pc,              \* position of the run inside save_figure
    save_folder,            \* what create_output_folder returned
    stdout,                 \* the lines printed so far
    files,                  \* the chart files written so far
    raised,                 \* the exception that ended the run, if any
    mkdir_result,           \* outcome of mkdir for the current chart
    write_result,           \* outcome of savefig for the current chart
    main_pc,                \* main: the statement about to run
    trace,                  \* main: the calls made so far, with their outcome
    colors,                 \* laps_comparisons: the colour fastf1 gives each driver
    driver_styles,          \* laps_comparisons: get_drivers_styles
    speed_calls             \* v-comparisons: the outcome of each get_drivers_*_speeds call

vars == <<stage, pc, laps, results, drivers, fastest_lap_sectors,
          fl_sectors_dict, fastest_sectors_dict, fastest_sector_data,
          sectors_dict, quali_data, drivers_quali_times, race_laps,
          transformed_laps, filled_laps, car_data, lap_inputs, get_lap_calls,
          quick_laps, stints, stints_table, script, figures, figure, output_pc,
          save_folder, stdout, files, raised, mkdir_result, write_result,
          main_pc, trace, colors, driver_styles, speed_calls>>

inputs == <<stage, laps, results, drivers>>

\* the values of the telemetry, stint and output procedures
outputVars == <<script, figures, figure, output_pc, save_folder, stdout, files, raised,
                mkdir_result, write_result>>

\* the position of main and the values of the procedures of the other scripts
runVars == <<main_pc, trace, colors, driver_styles, speed_calls>>

added == <<car_data, lap_inputs, get_lap_calls, quick_laps, stints, stints_table, outputVars,
           runVars>>

----------------------------------------------------------------------------
(* Bounds of the explored inputs *)

MaxDrivers == 2     \* drivers taking part in a session
MaxLaps == 2        \* laps of a session
MaxTime == 2        \* largest sector / lap duration, in ticks

----------------------------------------------------------------------------
(* Values *)

NaT == -1
NaN == 2000000
Inf == 1000000
NegInf == -1000000

DriverNames == <<"VER", "HAM", "LEC", "NOR">>
AllDrivers == {DriverNames[i] : i \in 1..MaxDrivers}
CompoundNames == <<"SOFT", "MEDIUM", "HARD">>
SectorNames == <<"Sector1Time", "Sector2Time", "Sector3Time">>
SectorSet == {SectorNames[i] : i \in 1..3}

Durations == {NaT} \cup (1..MaxTime)

isna(x) == x = NaT \/ x = NaN

total_seconds(t) == IF t = NaT THEN NaN ELSE t

\* float comparison: every comparison with NaN is false
FLt(a, b) == a # NaN /\ b # NaN /\ a < b
FLe(a, b) == a # NaN /\ b # NaN /\ a <= b

\* float subtraction
FSub(a, b) ==
    IF a = NaN \/ b = NaN THEN NaN
    ELSE IF a = Inf THEN (IF b = Inf THEN NaN ELSE Inf)
    ELSE IF a = NegInf THEN (IF b = NegInf THEN NaN ELSE NegInf)
    ELSE IF b = Inf THEN NegInf
    ELSE IF b = NegInf THEN Inf
    ELSE a - b

\* outcome of a call
NotCalled(v) == [status |-> "not_called", value |-> v]
Returned(v) == [status |-> "returned", value |-> v]
Raised(e, v) == [status |-> e, value |-> v]

NoTables == [s \in SectorSet |-> <<>>]

----------------------------------------------------------------------------
(* Sequences *)

Range(s) == {s[i] : i \in 1..Len(s)}

RECURSIVE SeqsUpTo(_, _)
SeqsUpTo(S, n) ==
    IF n = 0 THEN {<<>>}
    ELSE LET shorter == SeqsUpTo(S, n - 1)
         IN shorter \cup {Append(q, x) : q \in {r \in shorter : Len(r) = n - 1}, x \in S}

NoRepeat(s) == \A i, j \in 1..Len(s) : i # j => s[i] # s[j]

----------------------------------------------------------------------------
(* fastf1 / pandas primitives used by the procedures *)

pick_drivers(L, d) == SelectSeq(L, LAMBDA l : l.Driver = d)

None == [None |-> TRUE]

\* Laps.pick_fastest: the lap of minimum LapTime (the first such lap),
\* None when there is no timed lap
pick_fastest(L) ==
    LET timed == {i \in 1..Len(L) : L[i].LapTime # NaT}
    IN IF timed = {} THEN None
       ELSE LET best == CHOOSE i \in timed :
                            \A j \in timed : L[i].LapTime < L[j].LapTime
                                             \/ (L[i].LapTime = L[j].LapTime /\ i <= j)
            IN L[best]

\* Series.min() (missing values skipped), NaT when nothing is left
ColumnMin(L, col) ==
    LET present == {i \in 1..Len(L) : L[i][col] # NaT}
    IN IF present = {} THEN NaT
       ELSE LET m == CHOOSE i \in present : \A j \in present : L[i][col] <= L[j][col]
            IN L[m][col]

\* Series.idxmin(): position of the first lap holding the minimum
ColumnIdxMin(L, col) ==
    CHOOSE i \in 1..Len(L) :
        /\ L[i][col] = ColumnMin(L, col)
        /\ \A j \in 1..(i - 1) : L[j][col] # ColumnMin(L, col)

\* DataFrame.sort_values(by=key): ascending, missing values last, rows of
\* equal key kept in their order of insertion
RECURSIVE SortInsert(_, _, _)
SortInsert(sorted, row, key) ==
    IF sorted = <<>> THEN <<row>>
    ELSE IF row[key] < Head(sorted)[key] THEN <<row>> \o sorted
    ELSE <<Head(sorted)>> \o SortInsert(Tail(sorted), row, key)

RECURSIVE sort_values(_, _)
sort_values(rows, key) ==
    IF rows = <<>> THEN <<>>
    ELSE SortInsert(sort_values(SubSeq(rows, 1, Len(rows) - 1), key),
                    rows[Len(rows)], key)

----------------------------------------------------------------------------
(* fastest-lap-sectors/process.py *)

FLS_Initial == [s \in SectorSet |-> [Time |-> Inf, Driver |-> "VER"]]

RECURSIVE FLS_ScanFastest(_, _, _)
FLS_ScanFastest(L, ds, acc) ==
    IF ds = <<>> THEN Returned(acc)
    ELSE LET fastest_lap == pick_fastest(pick_drivers(L, Head(ds)))
         IN IF fastest_lap = None
            THEN Raised("AttributeError", FLS_Initial)  \* None has no .empty
            ELSE FLS_ScanFastest(L, Tail(ds),
                   [s \in SectorSet |->
                       IF FLt(total_seconds(fastest_lap[s]), acc[s].Time)
                       THEN [Time |-> total_seconds(fastest_lap[s]), Driver |-> Head(ds)]
                       ELSE acc[s]])

FLS_get_fastest_lap_sectors(L, ds) == FLS_ScanFastest(L, ds, FLS_Initial)

\* rows appended to sectors_data[s] by the loop over the drivers; the flag
\* tells whether the loop ran to its end
RECURSIVE FLS_DeltaRows(_, _, _, _)
FLS_DeltaRows(L, ds, fastest, acc) ==
    IF ds = <<>> THEN Returned(acc)
    ELSE LET fastest_lap == pick_fastest(pick_drivers(L, Head(ds)))
         IN IF fastest_lap = None
            THEN Raised("AttributeError", NoTables)
            ELSE FLS_DeltaRows(L, Tail(ds), fastest,
                   [s \in SectorSet |->
                       Append(acc[s],
                              [Driver |-> Head(ds),
                               Time |-> total_seconds(fastest_lap[s]),
                               Delta |-> FSub(total_seconds(fastest_lap[s]), fastest[s].Time),
                               Tyre |-> fastest_lap.Compound])])

\* pd.DataFrame(data).sort_values(by='Time') for every sector; a frame
\* built from no rows has no 'Time' column
\* the result is keyed 1, 2, 3
NoFrames == [i \in 1..3 |-> <<>>]

FLS_SortTables(collected) ==
    IF collected.status # "returned" THEN Raised(collected.status, NoFrames)
    ELSE IF \E s \in SectorSet : collected.value[s] = <<>>
    THEN Raised("KeyError", NoFrames)
    ELSE Returned([i \in 1..3 |-> sort_values(collected.value[SectorNames[i]], "Time")])

FLS_get_driver_deltas(L, ds, fastest) ==
    FLS_SortTables(FLS_DeltaRows(L, ds, fastest, NoTables))

RECURSIVE FLS_SectorRows(_, _, _)
FLS_SectorRows(L, ds, acc) ==
    IF ds = <<>> THEN acc
    ELSE LET drivers_laps == pick_drivers(L, Head(ds))
         IN FLS_SectorRows(L, Tail(ds),
              [s \in SectorSet |->
                  IF drivers_laps = <<>> \/ ColumnMin(drivers_laps, s) = NaT
                  THEN acc[s]
                  ELSE Append(acc[s],
                         [Driver |-> Head(ds),
                          Time |-> total_seconds(ColumnMin(drivers_laps, s)),
                          Delta |-> FSub(total_seconds(ColumnMin(drivers_laps, s)),
                                         total_seconds(ColumnMin(L, s))),
                          Tyre |-> drivers_laps[ColumnIdxMin(drivers_laps, s)].Compound])])

FLS_get_fastest_sectors(L, ds) ==
    FLS_SortTables(Returned(FLS_SectorRows(L, ds, NoTables)))

----------------------------------------------------------------------------
(* sectors-comparisons/process.py *)

\* a slip that would take the reference over the laps of one driver only
SC_get_fastest_sectors_one_driver(L) ==
    [s \in SectorSet |->
        IF L = <<>> THEN NaN ELSE total_seconds(ColumnMin(pick_drivers(L, L[1].Driver), s))]

SC_get_fastest_sectors(L) == [s \in SectorSet |-> total_seconds(ColumnMin(L, s))]

\* what get_driver_fastest_sector returns for a driver without a time
NoneNone == [Driver |-> "None", Time |-> NaN, Compound |-> "None", Delta |-> NaN]

\* a slip that would subtract the wrong way round
SC_get_driver_fastest_sector_swapped(L, driver, sector, fastest_sector_time) ==
    LET driver_laps == pick_drivers(L, driver)
    IN IF ColumnMin(driver_laps, sector) = NaT
       THEN NoneNone
       ELSE [Driver |-> driver,
             Time |-> total_seconds(ColumnMin(driver_laps, sector)),
             Compound |-> driver_laps[ColumnIdxMin(driver_laps, sector)].Compound,
             Delta |-> FSub(fastest_sector_time,
                            total_seconds(ColumnMin(driver_laps, sector)))]

SC_get_driver_fastest_sector(L, driver, sector, fastest_sector_time) ==
    LET driver_laps == pick_drivers(L, driver)
    IN IF ColumnMin(driver_laps, sector) = NaT
       THEN NoneNone
       ELSE [Driver |-> driver,
             Time |-> total_seconds(ColumnMin(driver_laps, sector)),
             Compound |-> driver_laps[ColumnIdxMin(driver_laps, sector)].Compound,
             Delta |-> FSub(total_seconds(ColumnMin(driver_laps, sector)),
                            fastest_sector_time)]

SC_time_data_list(L, ds, sector) ==
    [i \in 1..Len(ds) |->
        SC_get_driver_fastest_sector(L, ds[i], sector, SC_get_fastest_sectors(L)[sector])]

\* pd.DataFrame(time_data_list) has a 'Time' column only when the list is
\* a non-empty list of dicts: a (None, None) entry among dicts raises
\* AttributeError, a list led by (None, None) or an empty list gives a
\* frame that sort_values(by='Time') rejects with KeyError
SC_FrameError(time_data_list) ==
    IF time_data_list = <<>> THEN "KeyError"
    ELSE IF time_data_list[1] = NoneNone THEN "KeyError"
    ELSE IF \E i \in 1..Len(time_data_list) : time_data_list[i] = NoneNone
    THEN "AttributeError"
    ELSE "returned"

NoTimeDelta == [time |-> NoTables, delta |-> NoTables]

SC_get_fastest_sector_data(L, ds) ==
    LET bad == {i \in 1..3 : SC_FrameError(SC_time_data_list(L, ds, SectorNames[i])) # "returned"}
    IN IF bad # {}
       THEN Raised(SC_FrameError(SC_time_data_list(L, ds,
                       SectorNames[CHOOSE i \in bad : \A j \in bad : i <= j])),
                   NoTimeDelta)
       ELSE Returned([time |-> [s \in SectorSet |->
                                   sort_values(SC_time_data_list(L, ds, s), "Time")],
                      delta |-> [s \in SectorSet |->
                                   sort_values(SC_time_data_list(L, ds, s), "Delta")]])

RECURSIVE SC_FastestLapRows(_, _, _)
SC_FastestLapRows(L, ds, acc) ==
    IF ds = <<>> THEN acc
    ELSE LET fastest_lap == pick_fastest(pick_drivers(L, Head(ds)))
         IN SC_FastestLapRows(L, Tail(ds),
              IF fastest_lap = None THEN acc
              ELSE [s \in SectorSet |->
                      Append(acc[s], [Driver |-> Head(ds),
                                      Time |-> total_seconds(fastest_lap[s]),
                                      Compound |-> fastest_lap.Compound])])

\* df['Delta'] = df['Time'] - df.loc[0, 'Time'] on the sorted frame
SC_AddDelta(df) ==
    [i \in 1..Len(df) |->
        [Driver |-> df[i].Driver, Time |-> df[i].Time, Compound |-> df[i].Compound,
         Delta |-> FSub(df[i].Time, df[1].Time)]]

SC_get_fastest_lap_sectors(L, ds) ==
    LET rows == SC_FastestLapRows(L, ds, NoTables)
    IN IF \E s \in SectorSet : rows[s] = <<>>
       THEN Raised("KeyError", NoTables)
       ELSE Returned([s \in SectorSet |-> SC_AddDelta(sort_values(rows[s], "Time"))])

----------------------------------------------------------------------------
(* The sector run: a fetched session and a driver list, then the five      *)
(* procedures, each applied to the same session and drivers.               *)

Compound_of(i) == CompoundNames[((i - 1) % 3) + 1]

LapRecords(i) ==
    [Driver : AllDrivers, LapTime : Durations, Sector1Time : Durations,
     Sector2Time : Durations, Sector3Time : Durations,
     Compound : {Compound_of(i)}, TrackStatus : {<<1>>},
     PitInTime : {NaT}, PitOutTime : {NaT}]

\* session.laps: laps grouped by driver, in the order of DriverNames
DriverIndex(d) == CHOOSE i \in 1..MaxDrivers : DriverNames[i] = d

\* the laps of one driver follow those of the drivers before
GroupedByDriver(L) ==
    \A i \in 1..(Len(L) - 1) : DriverIndex(L[i].Driver) <= DriverIndex(L[i + 1].Driver)

RECURSIVE SessionLapsUpTo(_)
SessionLapsUpTo(n) ==
    IF n = 0 THEN {<<>>}
    ELSE SessionLapsUpTo(n - 1)
         \cup {L \in {Append(q, x) : q \in {r \in SessionLapsUpTo(n - 1) : Len(r) = n - 1},
                                     x \in LapRecords(n)} : GroupedByDriver(L)}

DriverLists == {ds \in SeqsUpTo(AllDrivers, MaxDrivers) : NoRepeat(ds)}

NoFastest == NotCalled(FLS_Initial)

\* before any of the stint procedures has run
StintsIdle ==
    /\ quick_laps = NotCalled(<<>>)
    /\ stints = NotCalled(<<>>)
    /\ stints_table = NotCalled(<<>>)

NoPath == [base |-> "", sub |-> ""]

\* a run that saves no chart
OutputIdle ==
    /\ script = ""
    /\ figures = 0
    /\ figure = 0
    /\ output_pc = "idle"
    /\ save_folder = NoPath
    /\ stdout = <<>>
    /\ files = {}
    /\ raised = "none"
    /\ mkdir_result = "not_called"
    /\ write_result = "not_called"

\* a run that does not go through main
RunIdle ==
    /\ main_pc = 0
    /\ trace = <<>>
    /\ colors = <<>>
    /\ driver_styles = NotCalled(<<>>)
    /\ speed_calls = <<>>

\* before any of the telemetry, stint and output procedures has run
AddedIdle ==
    /\ car_data = NotCalled(<<>>)
    /\ lap_inputs = <<>>
    /\ get_lap_calls = <<>>
    /\ StintsIdle
    /\ OutputIdle
    /\ RunIdle

InitSectors ==
    /\ stage = "sectors"
    /\ pc = 0
    /\ laps \in SessionLapsUpTo(MaxLaps)
    /\ results = <<>>
    /\ drivers \in DriverLists
    /\ fastest_lap_sectors = NoFastest
    /\ fl_sectors_dict = NotCalled(NoFrames)
    /\ fastest_sectors_dict = NotCalled(NoFrames)
    /\ fastest_sector_data = NotCalled(NoTimeDelta)
    /\ sectors_dict = NotCalled(NoTables)
    /\ quali_data = NotCalled(<<>>)
    /\ drivers_quali_times = NotCalled(<<>>)
    /\ race_laps = NotCalled(<<>>)
    /\ transformed_laps = NotCalled(<<>>)
    /\ filled_laps = <<>>
    /\ AddedIdle

CallFLSFastestLapSectors ==
    /\ stage = "sectors" /\ pc = 0
    /\ fastest_lap_sectors' = FLS_get_fastest_lap_sectors(laps, drivers)
    /\ pc' = 1
    /\ UNCHANGED inputs
    /\ UNCHANGED <<fl_sectors_dict, fastest_sectors_dict, fastest_sector_data, sectors_dict,
                   quali_data, drivers_quali_times, race_laps, transformed_laps, filled_laps>>
    /\ UNCHANGED added

CallFLSDriverDeltas ==
    /\ stage = "sectors" /\ pc = 1
    /\ fl_sectors_dict' = FLS_get_driver_deltas(laps, drivers, fastest_lap_sectors.value)
    /\ pc' = 2
    /\ UNCHANGED inputs
    /\ UNCHANGED <<fastest_lap_sectors, fastest_sectors_dict, fastest_sector_data, sectors_dict,
                   quali_data, drivers_quali_times, race_laps, transformed_laps, filled_laps>>
    /\ UNCHANGED added

CallFLSFastestSectors ==
    /\ stage = "sectors" /\ pc = 2
    /\ fastest_sectors_dict' = FLS_get_fastest_sectors(laps, drivers)
    /\ pc' = 3
    /\ UNCHANGED inputs
    /\ UNCHANGED <<fastest_lap_sectors, fl_sectors_dict, fastest_sector_data, sectors_dict,
                   quali_data, drivers_quali_times, race_laps, transformed_laps, filled_laps>>
    /\ UNCHANGED added

CallSCFastestSectorData ==
    /\ stage = "sectors" /\ pc = 3
    /\ fastest_sector_data' = SC_get_fastest_sector_data(laps, drivers)
    /\ pc' = 4
    /\ UNCHANGED inputs
    /\ UNCHANGED <<fastest_lap_sectors, fl_sectors_dict, fastest_sectors_dict, sectors_dict,
                   quali_data, drivers_quali_times, race_laps, transformed_laps, filled_laps>>
    /\ UNCHANGED added

CallSCFastestLapSectors ==
    /\ stage = "sectors" /\ pc = 4
    /\ sectors_dict' = SC_get_fastest_lap_sectors(laps, drivers)
    /\ pc' = 5
    /\ UNCHANGED inputs
    /\ UNCHANGED <<fastest_lap_sectors, fl_sectors_dict, fastest_sectors_dict, fastest_sector_data,
                   quali_data, drivers_quali_times, race_laps, transformed_laps, filled_laps>>
    /\ UNCHANGED added

NextSectors ==
    \/ CallFLSFastestLapSectors
    \/ CallFLSDriverDeltas
    \/ CallFLSFastestSectors
    \/ CallSCFastestSectorData
    \/ CallSCFastestLapSectors

SpecSectors == InitSectors /\ [][NextSectors]_vars

----------------------------------------------------------------------------
(* gap-to-pole/process.py, quali-telemetry-comparisons/data_processing.py *)

MaxQTime == 4       \* largest qualifying time, in ticks
Resolution == 4     \* ticks in a millisecond, the unit round(x, 3) keeps

PyNone == 3000000
Phases == <<"Q1", "Q2", "Q3">>

QDurations == {NaT} \cup (1..MaxQTime)

\* round(x, 3): to the nearest millisecond, an exact half to the even one
round3(x) ==
    IF x = NaN THEN NaN
    ELSE LET q == x \div Resolution
             r == x % Resolution
         IN IF 2 * r < Resolution THEN q * Resolution
            ELSE IF 2 * r > Resolution THEN (q + 1) * Resolution
            ELSE IF q % 2 = 0 THEN q * Resolution
            ELSE (q + 1) * Resolution

\* the loop over zip(q_times, phases): a later phase with a time overrides
RECURSIVE ScanPhases(_, _, _)
ScanPhases(row, i, acc) ==
    IF i > Len(Phases) THEN acc
    ELSE ScanPhases(row, i + 1,
           IF ~isna(row[Phases[i]])
           THEN [laptime |-> total_seconds(row[Phases[i]]), quali_phase |-> Phases[i]]
           ELSE acc)

\* a slip that would take the quickest of the three phases instead
DeterminingLapFastest(row) ==
    LET timed == {i \in 1..Len(Phases) : ~isna(row[Phases[i]])}
    IN IF timed = {} THEN [laptime |-> PyNone, quali_phase |-> "NoTime"]
       ELSE LET best == CHOOSE i \in timed :
                            \A j \in timed : row[Phases[i]] < row[Phases[j]]
                                             \/ (row[Phases[i]] = row[Phases[j]] /\ i >= j)
            IN [laptime |-> total_seconds(row[Phases[best]]), quali_phase |-> Phases[best]]

DeterminingLap(row) == ScanPhases(row, 1, [laptime |-> PyNone, quali_phase |-> "NoTime"])

RECURSIVE QualiRows(_, _, _, _)
QualiRows(R, ds, pole_laptime, acc) ==
    IF R = <<>> THEN acc
    ELSE LET row == Head(R)
             det == DeterminingLap(row)
         IN QualiRows(Tail(R), ds, pole_laptime,
              IF row.Abbreviation \in Range(ds) /\ det.laptime # PyNone
              THEN Append(acc, [Driver |-> row.Abbreviation,
                                LapTime |-> det.laptime,
                                Session |-> det.quali_phase,
                                GapToPole |-> round3(FSub(det.laptime, pole_laptime))])
              ELSE acc)

\* a slip that would take the reference from the first requested driver
get_quali_data_requested_pole(R, ds) ==
    LET requested == SelectSeq(R, LAMBDA row : row.Abbreviation \in Range(ds))
    IN IF R = <<>> THEN Raised("IndexError", <<>>)
       ELSE IF requested = <<>> THEN Returned(<<>>)
       ELSE Returned(QualiRows(R, ds, total_seconds(requested[1].Q3), <<>>))

\* a variant that would sort the table by lap time before returning it
get_quali_data_sorted(R, ds) ==
    IF R = <<>> THEN Raised("IndexError", <<>>)
    ELSE Returned(sort_values(QualiRows(R, ds, total_seconds(R[1].Q3), <<>>), "LapTime"))

get_quali_data(R, ds) ==
    IF R = <<>> THEN Raised("IndexError", <<>>)     \* results.iloc[0]
    ELSE Returned(QualiRows(R, ds, total_seconds(R[1].Q3), <<>>))

QualiEntry(t, ph, pos) == [laptime |-> t, quali_phase |-> ph, position |-> pos]

RECURSIVE QualiLapsScan(_, _, _)
QualiLapsScan(R, ds, acc) ==
    IF R = <<>> THEN acc
    ELSE LET row == Head(R)
             det == DeterminingLap(row)
         IN QualiLapsScan(Tail(R), ds,
              IF row.Abbreviation \in Range(ds)
              THEN [acc EXCEPT ![row.Abbreviation] =
                       QualiEntry(det.laptime, det.quali_phase, row.Position)]
              ELSE acc)

get_quali_laps(R, ds) ==
    Returned(QualiLapsScan(R, ds, [d \in Range(ds) |-> QualiEntry(0, "", 0)]))

\* Python's == on a lap time: None equals no float, nan equals nothing
PyEq(a, b) == a # NaN /\ b # NaN /\ a = b

\* format_laptime: minutes, whole seconds and rounded milliseconds of a time
format_laptime(seconds) ==
    [minutes |-> seconds \div (60 * 1000 * Resolution),
     sec |-> (seconds % (60 * 1000 * Resolution)) \div (1000 * Resolution),
     millis |-> round3(seconds % (1000 * Resolution)) \div Resolution]

\* the first lap of the table whose lap time equals laptime, as an index (0: none)
RECURSIVE FirstLapAt(_, _, _)
FirstLapAt(L, laptime, i) ==
    IF i > Len(L) THEN 0
    ELSE IF PyEq(total_seconds(L[i].LapTime), laptime) THEN i
    ELSE FirstLapAt(L, laptime, i + 1)

\* the loop over drivers_laptimes.items(); the keys are in the order of ds
RECURSIVE CarDataScan(_, _, _, _)
CarDataScan(L, ds, drivers_laptimes, acc) ==
    IF ds = <<>> THEN acc
    ELSE LET drv == Head(ds)
             value == drivers_laptimes[drv]
             dlaps == pick_drivers(L, drv)
             k == FirstLapAt(dlaps, value.laptime, 1)
         IN CarDataScan(L, Tail(ds), drivers_laptimes,
              IF k = 0 THEN acc
              ELSE Append(acc, [Driver |-> drv,
                                quali_phase |-> value.quali_phase,
                                lap |-> dlaps[k],
                                laptime |-> format_laptime(total_seconds(dlaps[k].LapTime)),
                                position |-> value.position]))

\* a variant that would give every driver of drivers_laptimes an entry, with
\* the driver's first lap when no lap has the recorded time
RECURSIVE CarDataScanAll(_, _, _, _)
CarDataScanAll(L, ds, drivers_laptimes, acc) ==
    IF ds = <<>> THEN acc
    ELSE LET drv == Head(ds)
             value == drivers_laptimes[drv]
             dlaps == pick_drivers(L, drv)
             k == FirstLapAt(dlaps, value.laptime, 1)
         IN CarDataScanAll(L, Tail(ds), drivers_laptimes,
              IF dlaps = <<>> THEN acc
              ELSE LET lap == IF k = 0 THEN dlaps[1] ELSE dlaps[k]
                   IN Append(acc, [Driver |-> drv,
                                   quali_phase |-> value.quali_phase,
                                   lap |-> lap,
                                   laptime |-> format_laptime(total_seconds(lap.LapTime)),
                                   position |-> value.position]))

get_quali_laps_car_data_all(L, ds, drivers_laptimes) ==
    Returned(CarDataScanAll(L, ds, drivers_laptimes, <<>>))

get_quali_laps_car_data(L, ds, drivers_laptimes) ==
    Returned(CarDataScan(L, ds, drivers_laptimes, <<>>))

----------------------------------------------------------------------------
(* The qualifying run: session results and a driver list, then the two     *)
(* procedures.                                                             *)

ResultRows(i) ==
    [Abbreviation : AllDrivers, Q1 : QDurations, Q2 : QDurations, Q3 : QDurations,
     Position : {i}, ClassifiedPosition : {"1"}]

\* the last phase a driver took a time in, as a rank (0: no time)
PhaseRank(row) ==
    IF row.Q3 # NaT THEN 3 ELSE IF row.Q2 # NaT THEN 2 ELSE IF row.Q1 # NaT THEN 1 ELSE 0

\* the order of a qualifying classification: who went further is ahead,
\* within a phase the quicker time is ahead
Classified(R) ==
    \A i \in 1..(Len(R) - 1) :
        \/ PhaseRank(R[i]) > PhaseRank(R[i + 1])
        \/ /\ PhaseRank(R[i]) = PhaseRank(R[i + 1])
           /\ PhaseRank(R[i]) > 0 => R[i][Phases[PhaseRank(R[i])]] <= R[i + 1][Phases[PhaseRank(R[i])]]

\* session.results: one row per driver, in classification order
RECURSIVE ResultsUpTo(_)
ResultsUpTo(n) ==
    IF n = 0 THEN {<<>>}
    ELSE ResultsUpTo(n - 1)
         \cup {R \in {Append(q, x) : q \in {r \in ResultsUpTo(n - 1) : Len(r) = n - 1},
                                     x \in ResultRows(n)} :
                  /\ \A i \in 1..(n - 1) : R[i].Abbreviation # R[n].Abbreviation
                  /\ Classified(R)}

\* the laps of one results row: an out lap without a time, then the lap of
\* every phase the driver has a time in (none of them when timed is FALSE)
RowLaps(row, timed) ==
    <<[Driver |-> row.Abbreviation, LapTime |-> NaT]>>
    \o (IF timed
        THEN [i \in 1..Cardinality({j \in 1..Len(Phases) : ~isna(row[Phases[j]])}) |->
                 LET ph == CHOOSE j \in 1..Len(Phases) :
                              /\ ~isna(row[Phases[j]])
                              /\ Cardinality({m \in 1..j : ~isna(row[Phases[m]])}) = i
                 IN [Driver |-> row.Abbreviation, LapTime |-> row[Phases[ph]]]]
        ELSE <<>>)

RECURSIVE QualiLapsOf(_, _)
QualiLapsOf(R, timed) ==
    IF R = <<>> THEN <<>> ELSE RowLaps(Head(R), timed) \o QualiLapsOf(Tail(R), timed)

\* session.laps of a qualifying session: the laps behind the results, or
\* only the untimed laps (the timed laps were deleted or not loaded)
QualiSessionLaps(R) == {QualiLapsOf(R, timed) : timed \in BOOLEAN}

InitQuali ==
    /\ stage = "quali"
    /\ pc = 0
    /\ results \in ResultsUpTo(MaxDrivers)
    /\ laps \in QualiSessionLaps(results)
    /\ drivers \in DriverLists
    /\ fastest_lap_sectors = NoFastest
    /\ fl_sectors_dict = NotCalled(NoFrames)
    /\ fastest_sectors_dict = NotCalled(NoFrames)
    /\ fastest_sector_data = NotCalled(NoTimeDelta)
    /\ sectors_dict = NotCalled(NoTables)
    /\ quali_data = NotCalled(<<>>)
    /\ drivers_quali_times = NotCalled(<<>>)
    /\ race_laps = NotCalled(<<>>)
    /\ transformed_laps = NotCalled(<<>>)
    /\ filled_laps = <<>>
    /\ AddedIdle

CallGetQualiData ==
    /\ stage = "quali" /\ pc = 0
    /\ quali_data' = get_quali_data(results, drivers)
    /\ pc' = 1
    /\ UNCHANGED inputs
    /\ UNCHANGED <<fastest_lap_sectors, fl_sectors_dict, fastest_sectors_dict, fastest_sector_data,
                   sectors_dict, drivers_quali_times, race_laps, transformed_laps, filled_laps>>
    /\ UNCHANGED added

CallGetQualiLaps ==
    /\ stage = "quali" /\ pc = 1
    /\ drivers_quali_times' = get_quali_laps(results, drivers)
    /\ pc' = 2
    /\ UNCHANGED inputs
    /\ UNCHANGED <<fastest_lap_sectors, fl_sectors_dict, fastest_sectors_dict, fastest_sector_data,
                   sectors_dict, quali_data, race_laps, transformed_laps, filled_laps>>
    /\ UNCHANGED added

CallGetQualiLapsCarData ==
    /\ stage = "quali" /\ pc = 2
    /\ car_data' = get_quali_laps_car_data(laps, drivers, drivers_quali_times.value)
    /\ pc' = 3
    /\ UNCHANGED inputs
    /\ UNCHANGED <<fastest_lap_sectors, fl_sectors_dict, fastest_sectors_dict, fastest_sector_data,
                   sectors_dict, quali_data, drivers_quali_times, race_laps, transformed_laps,
                   filled_laps, lap_inputs, get_lap_calls, quick_laps, stints, stints_table>>
    /\ UNCHANGED outputVars
    /\ UNCHANGED runVars

NextQuali ==
    \/ CallGetQualiData
    \/ CallGetQualiLaps
    \/ CallGetQualiLapsCarData

SpecQuali == InitQuali /\ [][NextQuali]_vars

----------------------------------------------------------------------------
(* laps-comparisons/process.py, race_pace_strategies/process.py *)

Unclassified == {"R", "W", "N", "F", "E", "D"}
NeutralisedCodes == {4, 5, 6, 7}

\* the car number, the key of session.results
DriverNumber(d) == DriverIndex(d)

\* Laps.pick_wo_box: laps that neither enter nor leave the pits
pick_wo_box(L) == SelectSeq(L, LAMBDA l : l.PitInTime = NaT /\ l.PitOutTime = NaT)

\* laps['LapTime (s)'] = laps['LapTime'].dt.total_seconds()
WithLapTimeSeconds(L) ==
    [i \in 1..Len(L) |->
        [f \in DOMAIN L[i] \cup {"LapTime (s)"} |->
            IF f = "LapTime (s)" THEN total_seconds(L[i].LapTime) ELSE L[i][f]]]

\* a variant that would also drop the laps without a track status (na=True)
GreenFlagKnown(l) ==
    /\ l.TrackStatus # <<>>
    /\ ~\E k \in 1..Len(l.TrackStatus) : l.TrackStatus[k] \in NeutralisedCodes

\* ~laps['TrackStatus'].str.contains(r'[4567]', na=False)
GreenFlag(l) == ~\E k \in 1..Len(l.TrackStatus) : l.TrackStatus[k] \in NeutralisedCodes

\* a slip that would backfill from whatever sectors are present
LC_fill_missing_laps_partial(T) ==
    [i \in 1..Len(T) |->
        IF isna(T[i].LapTime)
           /\ \E s \in SectorSet : ~isna(T[i][s])
        THEN [T[i] EXCEPT !["LapTime (s)"] =
                 (IF isna(T[i].Sector1Time) THEN 0 ELSE T[i].Sector1Time)
                 + (IF isna(T[i].Sector2Time) THEN 0 ELSE T[i].Sector2Time)
                 + (IF isna(T[i].Sector3Time) THEN 0 ELSE T[i].Sector3Time)]
        ELSE T[i]]

\* a variant that would leave out the laps it cannot give a time
LC_fill_missing_laps_dropna(T) ==
    SelectSeq([i \in 1..Len(T) |->
                  IF isna(T[i].LapTime)
                     /\ \A s \in SectorSet : ~isna(T[i][s])
                  THEN [T[i] EXCEPT !["LapTime (s)"] =
                           total_seconds(T[i].Sector1Time) + total_seconds(T[i].Sector2Time)
                           + total_seconds(T[i].Sector3Time)]
                  ELSE T[i]],
              LAMBDA l : ~isna(l["LapTime (s)"]))

LC_fill_missing_laps(T) ==
    [i \in 1..Len(T) |->
        IF isna(T[i].LapTime)
           /\ \A s \in SectorSet : ~isna(T[i][s])
        THEN [T[i] EXCEPT !["LapTime (s)"] =
                 total_seconds(T[i].Sector1Time) + total_seconds(T[i].Sector2Time)
                 + total_seconds(T[i].Sector3Time)]
        ELSE T[i]]

pick_racelaps(L, ds) ==
    Returned([d \in Range(ds) |->
        LC_fill_missing_laps(
            SelectSeq(WithLapTimeSeconds(pick_wo_box(pick_drivers(L, d))), GreenFlag))])

\* a variant of get_laps that would not backfill
RPS_fill_missing_laps_skipped(T) == T

RPS_fill_missing_laps(T) ==
    [i \in 1..Len(T) |->
        IF isna(T[i].LapTime)
           /\ ~\E s \in SectorSet : isna(T[i][s])
        THEN [T[i] EXCEPT !["LapTime (s)"] =
                 total_seconds(T[i].Sector1Time) + total_seconds(T[i].Sector2Time)
                 + total_seconds(T[i].Sector3Time)]
        ELSE T[i]]

\* race_results: the car numbers with a classified finishing position
ClassifiedNumbers(R) ==
    {DriverNumber(R[i].Abbreviation) : i \in {j \in 1..Len(R) : R[j].ClassifiedPosition \notin Unclassified}}

RPS_transformed_laps(L, R) ==
    SelectSeq(SelectSeq(RPS_fill_missing_laps(WithLapTimeSeconds(pick_wo_box(L))), GreenFlag),
              LAMBDA l : DriverNumber(l.Driver) \in ClassifiedNumbers(R)
                         /\ ~isna(l["LapTime (s)"]))

\* groupby('Driver')['LapTime (s)'].mean(): one row per driver with laps, in
\* the alphabetical order of the groups; the mean is kept as Sum / Count
AlphaOrder == <<"HAM", "LEC", "NOR", "VER">>

RECURSIVE SumTimes(_)
SumTimes(T) == IF T = <<>> THEN 0 ELSE T[1]["LapTime (s)"] + SumTimes(Tail(T))

GroupOf(T, d) == SelectSeq(T, LAMBDA l : l.Driver = d)

RECURSIVE GroupMeans(_, _)
GroupMeans(T, i) ==
    IF i > Len(AlphaOrder) THEN <<>>
    ELSE (IF GroupOf(T, AlphaOrder[i]) = <<>> THEN <<>>
          ELSE <<[Driver |-> AlphaOrder[i],
                  Sum |-> SumTimes(GroupOf(T, AlphaOrder[i])),
                  Count |-> Len(GroupOf(T, AlphaOrder[i]))]>>)
         \o GroupMeans(T, i + 1)

\* sort_values() of the means: ascending, equal means kept in group order
RECURSIVE MeanInsert(_, _)
MeanInsert(sorted, row) ==
    IF sorted = <<>> THEN <<row>>
    ELSE IF row.Sum * Head(sorted).Count < Head(sorted).Sum * row.Count
    THEN <<row>> \o sorted
    ELSE <<Head(sorted)>> \o MeanInsert(Tail(sorted), row)

RECURSIVE SortMeans(_)
SortMeans(rows) ==
    IF rows = <<>> THEN <<>>
    ELSE MeanInsert(SortMeans(SubSeq(rows, 1, Len(rows) - 1)), rows[Len(rows)])

\* .mean().round(3): Sum / Count to the nearest millisecond, half to even
RoundedMean(row) ==
    LET unit == row.Count * Resolution
        q == row.Sum \div unit
        r == row.Sum % unit
    IN IF 2 * r < unit THEN q * Resolution
       ELSE IF 2 * r > unit THEN (q + 1) * Resolution
       ELSE IF q % 2 = 0 THEN q * Resolution
       ELSE (q + 1) * Resolution

drivers_order(T) ==
    LET m == SortMeans(GroupMeans(T, 1)) IN [i \in 1..Len(m) |-> m[i].Driver]

drivers_mean_laptimes(T) ==
    LET m == GroupMeans(T, 1)
    IN sort_values([i \in 1..Len(m) |->
                       [Driver |-> m[i].Driver, Mean |-> RoundedMean(m[i])]], "Mean")

get_laps(L, R) ==
    Returned([transformed_laps |-> RPS_transformed_laps(L, R),
              drivers_order |-> drivers_order(RPS_transformed_laps(L, R)),
              drivers_mean_laptimes |-> drivers_mean_laptimes(RPS_transformed_laps(L, R))])

----------------------------------------------------------------------------
(* The race-lap run: a fetched race, then pick_racelaps over a driver list *)
(* (laps-comparisons) or get_laps over the classification                  *)
(* (race_pace_strategies).                                                 *)

TrackStatuses == {<<>>, <<1>>, <<2, 4>>}

\* a lap is a flying lap, an in lap (PitInTime set) or an out lap (PitOutTime set)
PitTimes == {<<NaT, NaT>>, <<1, NaT>>, <<NaT, 1>>}

RaceLapRecords(i) ==
    {[Driver |-> d, LapTime |-> t, Sector1Time |-> s1, Sector2Time |-> s2, Sector3Time |-> s3,
      Compound |-> Compound_of(i), TrackStatus |-> ts, PitInTime |-> pit[1], PitOutTime |-> pit[2]] :
        d \in AllDrivers, t \in {NaT, 3 * MaxTime + 3},
        s1 \in {NaT, MaxTime}, s2 \in {NaT, MaxTime + 1}, s3 \in {NaT, MaxTime + 2},
        ts \in TrackStatuses, pit \in PitTimes}

RECURSIVE RaceLapsUpTo(_)
RaceLapsUpTo(n) ==
    IF n = 0 THEN {<<>>}
    ELSE RaceLapsUpTo(n - 1)
         \cup {L \in {Append(q, x) : q \in {r \in RaceLapsUpTo(n - 1) : Len(r) = n - 1},
                                     x \in RaceLapRecords(n)} : GroupedByDriver(L)}

\* the race classification: every driver, finished ("1") or retired ("R")
RaceResults ==
    {R \in [1..MaxDrivers -> [Abbreviation : AllDrivers, Q1 : {NaT}, Q2 : {NaT}, Q3 : {NaT},
                              Position : 1..MaxDrivers, ClassifiedPosition : {"1", "R"}]] :
        \A i \in 1..MaxDrivers : R[i].Abbreviation = DriverNames[i] /\ R[i].Position = i}

InitLaps ==
    /\ pc = 0
    /\ laps \in RaceLapsUpTo(MaxLaps)
    /\ \/ stage = "laps-comparisons" /\ results = <<>> /\ drivers \in DriverLists
       \/ stage = "race_pace_strategies" /\ results \in RaceResults /\ drivers = <<>>
    /\ fastest_lap_sectors = NoFastest
    /\ fl_sectors_dict = NotCalled(NoFrames)
    /\ fastest_sectors_dict = NotCalled(NoFrames)
    /\ fastest_sector_data = NotCalled(NoTimeDelta)
    /\ sectors_dict = NotCalled(NoTables)
    /\ quali_data = NotCalled(<<>>)
    /\ drivers_quali_times = NotCalled(<<>>)
    /\ race_laps = NotCalled(<<>>)
    /\ transformed_laps = NotCalled(<<>>)
    /\ filled_laps = <<>>
    /\ AddedIdle

CallPickRacelaps ==
    /\ stage = "laps-comparisons" /\ pc = 0
    /\ race_laps' = pick_racelaps(laps, drivers)
    /\ filled_laps' = [i \in 1..Len(drivers) |-> pick_racelaps(laps, drivers).value[drivers[i]]]
    /\ pc' = 1
    /\ UNCHANGED inputs
    /\ UNCHANGED <<fastest_lap_sectors, fl_sectors_dict, fastest_sectors_dict, fastest_sector_data,
                   sectors_dict, quali_data, drivers_quali_times, transformed_laps>>
    /\ UNCHANGED added

CallGetLaps ==
    /\ stage = "race_pace_strategies" /\ pc = 0
    /\ transformed_laps' = get_laps(laps, results)
    /\ filled_laps' = <<RPS_fill_missing_laps(WithLapTimeSeconds(pick_wo_box(laps)))>>
    /\ pc' = 1
    /\ UNCHANGED inputs
    /\ UNCHANGED <<fastest_lap_sectors, fl_sectors_dict, fastest_sectors_dict, fastest_sector_data,
                   sectors_dict, quali_data, drivers_quali_times, race_laps>>
    /\ UNCHANGED added

NextLaps ==
    \/ CallPickRacelaps
    \/ CallGetLaps

SpecLaps == InitLaps /\ [][NextLaps]_vars

----------------------------------------------------------------------------
(* laps-comparisons/process.py: pick_quicklaps, create_stints;             *)
(* race_pace_strategies/process.py: get_stints                             *)

MaxStint == 2       \* largest stint number
MaxStintLaps == 3   \* laps of a session in the stint run

NoCompound == "None"    \* a lap without tyre data

\* Laps.pick_quicklaps: the laps quicker than 107 % of the quickest lap of
\* the table
QuickLaps(T) ==
    IF ColumnMin(T, "LapTime") = NaT THEN <<>>
    ELSE SelectSeq(T, LAMBDA l : l.LapTime # NaT
                                 /\ 100 * l.LapTime < 107 * ColumnMin(T, "LapTime"))

pick_quicklaps(L, ds) ==
    Returned([d \in Range(ds) |-> WithLapTimeSeconds(QuickLaps(pick_wo_box(pick_drivers(L, d))))])

\* a variant that would keep one lap per stint, the last one met
AddToStintsLast(groups, lap) ==
    IF \E g \in 1..Len(groups) : groups[g].stint # NaN /\ groups[g].stint = lap.Stint
    THEN [g \in 1..Len(groups) |->
            IF groups[g].stint # NaN /\ groups[g].stint = lap.Stint
            THEN [groups[g] EXCEPT !.laps = <<lap>>]
            ELSE groups[g]]
    ELSE Append(groups, [stint |-> lap.Stint, laps |-> <<lap>>])

\* driver_stints.setdefault(stint_number, []).append(lap): the groups in
\* the order their keys were first met; a missing stint number (nan) equals
\* no key, so a lap without one opens a group of its own
AddToStints(groups, lap) ==
    IF \E g \in 1..Len(groups) : groups[g].stint # NaN /\ groups[g].stint = lap.Stint
    THEN [g \in 1..Len(groups) |->
            IF groups[g].stint # NaN /\ groups[g].stint = lap.Stint
            THEN [groups[g] EXCEPT !.laps = Append(@, lap)]
            ELSE groups[g]]
    ELSE Append(groups, [stint |-> lap.Stint, laps |-> <<lap>>])

RECURSIVE DriverStints(_, _)
DriverStints(driver_laps, groups) ==
    IF driver_laps = <<>> THEN groups
    ELSE DriverStints(Tail(driver_laps), AddToStints(groups, Head(driver_laps)))

create_stints(T) == Returned([d \in DOMAIN T |-> DriverStints(T[d], <<>>)])

\* the keys of groupby(['Driver', 'Stint', 'Compound']) in their sorted order
CompoundOrder == <<"HARD", "MEDIUM", "SOFT">>

StintKeys ==
    [k \in 1..(Len(AlphaOrder) * MaxStint * Len(CompoundOrder)) |->
        [Driver |-> AlphaOrder[((k - 1) \div (MaxStint * Len(CompoundOrder))) + 1],
         Stint |-> (((k - 1) \div Len(CompoundOrder)) % MaxStint) + 1,
         Compound |-> CompoundOrder[((k - 1) % Len(CompoundOrder)) + 1]]]

InStint(l, key) ==
    l.Driver = key.Driver /\ l.Stint = key.Stint /\ l.Compound = key.Compound

\* groupby(...).count().reset_index().rename(...): one row per key that some
\* lap has, rows of a missing Stint or Compound being left out by groupby;
\* the count is that of the non-missing LapNumber values
StintRow(L, key) ==
    [Driver |-> key.Driver, Stint |-> key.Stint, Compound |-> key.Compound,
     StintLength |-> Cardinality({j \in 1..Len(L) : InStint(L[j], key) /\ ~isna(L[j].LapNumber)})]

get_stints(L) ==
    LET present == SelectSeq(StintKeys, LAMBDA key : \E j \in 1..Len(L) : InStint(L[j], key))
    IN Returned([k \in 1..Len(present) |-> StintRow(L, present[k])])

----------------------------------------------------------------------------
(* The stint run: a fetched race and a driver list, then pick_quicklaps    *)
(* and create_stints of laps-comparisons and get_stints of                 *)
(* race_pace_strategies, applied to the same laps.                         *)

QuickTime == 100    \* a representative lap time
SlowTime == 108     \* a lap time beyond 107 % of QuickTime

StintLapRecords(L) ==
    {[Driver |-> d, LapNumber |-> Len(pick_drivers(L, d)) + 1, Stint |-> st, Compound |-> c,
      LapTime |-> t, PitInTime |-> NaT, PitOutTime |-> NaT] :
        d \in AllDrivers, st \in {NaN} \cup (1..MaxStint),
        c \in {"SOFT", "MEDIUM", NoCompound}, t \in {QuickTime, SlowTime}}

RECURSIVE StintLapsUpTo(_)
StintLapsUpTo(n) ==
    IF n = 0 THEN {<<>>}
    ELSE StintLapsUpTo(n - 1)
         \cup {L \in UNION {{Append(q, x) : x \in StintLapRecords(q)} :
                               q \in {r \in StintLapsUpTo(n - 1) : Len(r) = n - 1}} :
                  GroupedByDriver(L)}

InitStints ==
    /\ stage = "stints"
    /\ pc = 0
    /\ laps \in StintLapsUpTo(MaxStintLaps)
    /\ results = <<>>
    /\ drivers \in DriverLists
    /\ fastest_lap_sectors = NoFastest
    /\ fl_sectors_dict = NotCalled(NoFrames)
    /\ fastest_sectors_dict = NotCalled(NoFrames)
    /\ fastest_sector_data = NotCalled(NoTimeDelta)
    /\ sectors_dict = NotCalled(NoTables)
    /\ quali_data = NotCalled(<<>>)
    /\ drivers_quali_times = NotCalled(<<>>)
    /\ race_laps = NotCalled(<<>>)
    /\ transformed_laps = NotCalled(<<>>)
    /\ filled_laps = <<>>
    /\ AddedIdle

unchangedByStints ==
    <<fastest_lap_sectors, fl_sectors_dict, fastest_sectors_dict, fastest_sector_data,
      sectors_dict, quali_data, drivers_quali_times, race_laps, transformed_laps,
      filled_laps, car_data, lap_inputs, get_lap_calls, outputVars, runVars>>

CallPickQuicklaps ==
    /\ stage = "stints" /\ pc = 0
    /\ quick_laps' = pick_quicklaps(laps, drivers)
    /\ pc' = 1
    /\ UNCHANGED inputs
    /\ UNCHANGED unchangedByStints
    /\ UNCHANGED <<stints, stints_table>>

CallCreateStints ==
    /\ stage = "stints" /\ pc = 1
    /\ stints' = create_stints(quick_laps.value)
    /\ pc' = 2
    /\ UNCHANGED inputs
    /\ UNCHANGED unchangedByStints
    /\ UNCHANGED <<quick_laps, stints_table>>

CallGetStints ==
    /\ stage = "stints" /\ pc = 2
    /\ stints_table' = get_stints(laps)
    /\ pc' = 3
    /\ UNCHANGED inputs
    /\ UNCHANGED unchangedByStints
    /\ UNCHANGED <<quick_laps, stints>>

NextStints ==
    \/ CallPickQuicklaps
    \/ CallCreateStints
    \/ CallGetStints

SpecStints == InitStints /\ [][NextStints]_vars

----------------------------------------------------------------------------

(* lap-telemetry-comparison/process.py *)

MaxLapNumber == 2   \* largest lap number of a driver

\* an exception that carries a message
RaisedMsg(e, msg, v) == [status |-> e, value |-> v, message |-> msg]

\* pd.to_timedelta("00:" + text): text is the list of the numeric fields of
\* the string, minutes, seconds and milliseconds when it is well formed
WellFormed(text) == Len(text) = 3

to_timedelta(text) == ((text[1] * 60 + text[2]) * 1000 + text[3]) * Resolution

pick_laps(L, n) == SelectSeq(L, LAMBDA l : l.LapNumber = n)

\* car_data[driver] = entry: a new key goes last, a known key keeps its place
SetEntry(car, entry) ==
    IF \E k \in 1..Len(car) : car[k].Driver = entry.Driver
    THEN [k \in 1..Len(car) |-> IF car[k].Driver = entry.Driver THEN entry ELSE car[k]]
    ELSE Append(car, entry)

\* lines 71-78: format the lap time and store the entry
\* a variant that would put the entry in car_data before asking for the car
\* data of the lap
StoreLapFirst(car, driver, lap, lap_number, laptime) ==
    IF laptime = NaN
    THEN RaisedMsg("ValueError", [text |-> "cannot convert float NaN to integer"], car)
    ELSE IF ~lap[1].CarData
    THEN RaisedMsg("DataNotLoadedError", [text |-> "car data"],
                   SetEntry(car, [Driver |-> driver,
                                  lap_object |-> lap,
                                  laptime |-> format_laptime(laptime),
                                  lap_number |-> lap_number]))
    ELSE Returned(SetEntry(car, [Driver |-> driver,
                                 lap_object |-> lap,
                                 laptime |-> format_laptime(laptime),
                                 lap_number |-> lap_number]))

\* the dict display is evaluated in full (format_laptime, then
\* lap.get_car_data()) before it is assigned to car_data[driver]
StoreLap(car, driver, lap, lap_number, laptime) ==
    IF laptime = NaN
    THEN RaisedMsg("ValueError", [text |-> "cannot convert float NaN to integer"], car)
    ELSE IF ~lap[1].CarData
    THEN RaisedMsg("DataNotLoadedError", [text |-> "car data"], car)
    ELSE Returned(SetEntry(car, [Driver |-> driver,
                                 lap_object |-> lap,
                                 laptime |-> format_laptime(laptime),
                                 lap_number |-> lap_number]))

\* a variant that would return car_data untouched for a selector of another type
get_lap_lenient(L, driver, lap_input, car) ==
    LET dlaps == pick_drivers(L, driver)
    IN IF lap_input.type = "int"
       THEN LET lap == pick_laps(dlaps, lap_input.n)
            IN IF lap = <<>>
               THEN RaisedMsg("IndexError",
                              [text |-> "single positional indexer is out-of-bounds"], car)
               ELSE StoreLap(car, driver, lap, lap_input.n, total_seconds(lap[1].LapTime))
       ELSE IF lap_input.type = "str"
       THEN IF ~WellFormed(lap_input.text)
            THEN RaisedMsg("ValueError",
                           [text |-> "Invalid lap time format or lap time doesn't exist",
                            selector |-> lap_input], car)
            ELSE LET lap_time == to_timedelta(lap_input.text)
                     lap == SelectSeq(dlaps, LAMBDA l : l.LapTime # NaT /\ l.LapTime = lap_time)
                 IN IF lap = <<>>
                    THEN RaisedMsg("ValueError",
                                   [text |-> "No lap found matching time",
                                    selector |-> lap_input, driver |-> driver], car)
                    ELSE StoreLap(car, driver, lap, lap[1].LapNumber,
                                  total_seconds(lap[1].LapTime))
       ELSE Returned(car)

get_lap(L, driver, lap_input, car) ==
    LET dlaps == pick_drivers(L, driver)
    IN IF lap_input.type = "int"
       THEN LET lap == pick_laps(dlaps, lap_input.n)
            IN IF lap = <<>>         \* lap['LapTime'].iloc[0] of an empty selection
               THEN RaisedMsg("IndexError",
                              [text |-> "single positional indexer is out-of-bounds"], car)
               ELSE StoreLap(car, driver, lap, lap_input.n, total_seconds(lap[1].LapTime))
       ELSE IF lap_input.type = "str"
       THEN IF ~WellFormed(lap_input.text)
            THEN RaisedMsg("ValueError",
                           [text |-> "Invalid lap time format or lap time doesn't exist",
                            selector |-> lap_input], car)
            ELSE LET lap_time == to_timedelta(lap_input.text)
                     lap == SelectSeq(dlaps, LAMBDA l : l.LapTime # NaT /\ l.LapTime = lap_time)
                 IN IF lap = <<>>
                    THEN RaisedMsg("ValueError",
                                   [text |-> "No lap found matching time",
                                    selector |-> lap_input, driver |-> driver], car)
                    ELSE StoreLap(car, driver, lap, lap[1].LapNumber,
                                  total_seconds(lap[1].LapTime))
       ELSE RaisedMsg("TypeError",
                      [text |-> "lap_input must be int (lap number) or str (lap time)"], car)

----------------------------------------------------------------------------
(* The lap telemetry run: two drivers, a lap selector for each, and the    *)
(* two get_lap calls of main; a call that raises ends the run.             *)

\* lap times of whole milliseconds
TelemetryDurations == {NaT} \cup {k * Resolution : k \in 1..MaxTime}

\* CarData: whether lap.get_car_data() can deliver the telemetry of the lap
TelemetryLapRecords ==
    [Driver : AllDrivers, LapNumber : 1..MaxLapNumber, LapTime : TelemetryDurations,
     CarData : BOOLEAN]

\* session.laps: no driver has two laps of one number
TelemetryLapsUpTo(n) ==
    {L \in SeqsUpTo(TelemetryLapRecords, n) :
        \A i, j \in 1..Len(L) :
            (i < j /\ L[i].Driver = L[j].Driver) => L[i].LapNumber < L[j].LapNumber}

\* what get_input can hand over as a selector: a lap number, a lap time
\* string, a string that is no lap time, or a value of another type
LapSelectors ==
    [type : {"int"}, n : 1..MaxLapNumber]
    \cup [type : {"str"}, text : {<<0, 0, k>> : k \in 1..(MaxTime + 1)} \cup {<<>>}]
    \cup [type : {"float", "NoneType"}]

InitTelemetry ==
    /\ stage = "lap-telemetry"
    /\ pc = 0
    /\ laps \in TelemetryLapsUpTo(MaxLaps)
    /\ results = <<>>
    /\ drivers \in [1..2 -> AllDrivers]
    /\ fastest_lap_sectors = NoFastest
    /\ fl_sectors_dict = NotCalled(NoFrames)
    /\ fastest_sectors_dict = NotCalled(NoFrames)
    /\ fastest_sector_data = NotCalled(NoTimeDelta)
    /\ sectors_dict = NotCalled(NoTables)
    /\ quali_data = NotCalled(<<>>)
    /\ drivers_quali_times = NotCalled(<<>>)
    /\ race_laps = NotCalled(<<>>)
    /\ transformed_laps = NotCalled(<<>>)
    /\ filled_laps = <<>>
    /\ car_data = NotCalled(<<>>)
    /\ lap_inputs \in [1..2 -> LapSelectors]
    /\ get_lap_calls = <<>>
    /\ StintsIdle
    /\ OutputIdle
    /\ RunIdle

\* car_data as main holds it before its next call
CarDataBefore(k) == IF k = 1 THEN <<>> ELSE get_lap_calls[k - 1].value

CallGetLap ==
    /\ stage = "lap-telemetry" /\ pc < 2
    /\ pc > 0 => get_lap_calls[pc].status = "returned"
    /\ get_lap_calls' = Append(get_lap_calls,
                               get_lap(laps, drivers[pc + 1], lap_inputs[pc + 1],
                                       CarDataBefore(pc + 1)))
    /\ pc' = pc + 1
    /\ UNCHANGED inputs
    /\ UNCHANGED <<fastest_lap_sectors, fl_sectors_dict, fastest_sectors_dict, fastest_sector_data,
                   sectors_dict, quali_data, drivers_quali_times, race_laps, transformed_laps,
                   filled_laps, car_data, lap_inputs, quick_laps, stints, stints_table>>
    /\ UNCHANGED outputVars
    /\ UNCHANGED runVars

NextTelemetry == CallGetLap

SpecTelemetry == InitTelemetry /\ [][NextTelemetry]_vars

----------------------------------------------------------------------------
(* plot.py / plotting.py of the scripts: save_figure, create_output_folder *)

MaxFigures == 2     \* charts saved by one run

\* the scripts whose create_output_folder wraps mkdir in try / except
Guarded == {"gap-to-pole", "laps_comparisons", "position-changes",
            "race_pace_strategies", "sectors-comparisons", "v-comparisons"}

\* the scripts whose create_output_folder calls mkdir bare
Unguarded == {"lap-telemetry-comparison", "quali-telemetry-comparisons"}

Scripts == Guarded \cup Unguarded

\* save_folder = base_folder / folder_name
Path(s) ==
    [base |-> "_output_plots",
     sub |-> IF s = "lap-telemetry-comparison" THEN "Telemetry"
             ELSE IF s = "quali-telemetry-comparisons" THEN "Quali" ELSE ""]

\* a variant in which no script catches the failure of mkdir
create_output_folder_bare(s, created) ==
    IF created
    THEN [raised |-> "none", save_folder |-> Path(s), printed |-> <<>>]
    ELSE [raised |-> "OSError", save_folder |-> NoPath, printed |-> <<>>]

\* create_output_folder of script s when mkdir succeeds (created) or fails:
\* the exception that leaves it, the path it returns, the lines it prints
create_output_folder(s, created) ==
    IF created
    THEN [raised |-> "none", save_folder |-> Path(s), printed |-> <<>>]
    ELSE IF s \in Guarded
    THEN [raised |-> "none", save_folder |-> Path(s),
          printed |-> <<[line |-> "Could not create directory", path |-> Path(s)]>>]
    ELSE [raised |-> "OSError", save_folder |-> NoPath, printed |-> <<>>]

----------------------------------------------------------------------------
(* The output run: a script saves its charts one after the other; mkdir    *)
(* and the file write succeed or fail as the file system decides.          *)

InitOutput ==
    /\ stage = "output"
    /\ pc = 0
    /\ laps = <<>>
    /\ results = <<>>
    /\ drivers = <<>>
    /\ fastest_lap_sectors = NoFastest
    /\ fl_sectors_dict = NotCalled(NoFrames)
    /\ fastest_sectors_dict = NotCalled(NoFrames)
    /\ fastest_sector_data = NotCalled(NoTimeDelta)
    /\ sectors_dict = NotCalled(NoTables)
    /\ quali_data = NotCalled(<<>>)
    /\ drivers_quali_times = NotCalled(<<>>)
    /\ race_laps = NotCalled(<<>>)
    /\ transformed_laps = NotCalled(<<>>)
    /\ filled_laps = <<>>
    /\ car_data = NotCalled(<<>>)
    /\ lap_inputs = <<>>
    /\ get_lap_calls = <<>>
    /\ StintsIdle
    /\ script \in Scripts
    /\ figures \in 1..MaxFigures
    /\ figure = 1
    /\ output_pc = "create_output_folder"
    /\ save_folder = NoPath
    /\ stdout = <<>>
    /\ files = {}
    /\ raised = "none"
    /\ mkdir_result = "not_called"
    /\ write_result = "not_called"
    /\ RunIdle

unchangedByOutput ==
    <<fastest_lap_sectors, fl_sectors_dict, fastest_sectors_dict, fastest_sector_data,
      sectors_dict, quali_data, drivers_quali_times, race_laps, transformed_laps,
      filled_laps, car_data, lap_inputs, get_lap_calls, quick_laps, stints, stints_table,
      script, figures, runVars>>

\* save_figure: save_folder = create_output_folder(event)
CallCreateOutputFolder ==
    /\ stage = "output" /\ output_pc = "create_output_folder"
    /\ \E created \in BOOLEAN :
          LET out == create_output_folder(script, created)
          IN /\ mkdir_result' = IF created THEN "created" ELSE "failed"
             /\ stdout' = stdout \o out.printed
             /\ save_folder' = out.save_folder
             /\ raised' = out.raised
             /\ output_pc' = IF out.raised = "none" THEN "savefig" ELSE "raised"
    /\ pc' = pc + 1
    /\ UNCHANGED inputs
    /\ UNCHANGED unchangedByOutput
    /\ UNCHANGED <<figure, files, write_result>>

\* save_figure: fig.savefig(filepath, ...), outside any try
CallSavefig ==
    /\ stage = "output" /\ output_pc = "savefig"
    /\ \E written \in BOOLEAN :
          /\ write_result' = IF written THEN "written" ELSE "failed"
          /\ files' = IF written THEN files \cup {[folder |-> save_folder, chart |-> figure]}
                      ELSE files
          /\ raised' = IF written THEN "none" ELSE "OSError"
          /\ output_pc' = IF written THEN "print" ELSE "raised"
    /\ pc' = pc + 1
    /\ UNCHANGED inputs
    /\ UNCHANGED unchangedByOutput
    /\ UNCHANGED <<figure, save_folder, stdout, mkdir_result>>

\* save_figure: print(f"Figure saved to: {filepath}"), then the next chart
PrintFigureSaved ==
    /\ stage = "output" /\ output_pc = "print"
    /\ stdout' = Append(stdout, [line |-> "Figure saved to", path |-> save_folder,
                                 chart |-> figure])
    /\ IF figure < figures
       THEN /\ figure' = figure + 1
            /\ output_pc' = "create_output_folder"
            /\ mkdir_result' = "not_called"
            /\ write_result' = "not_called"
            /\ save_folder' = NoPath
       ELSE /\ output_pc' = "done"
            /\ UNCHANGED <<figure, mkdir_result, write_result, save_folder>>
    /\ pc' = pc + 1
    /\ UNCHANGED inputs
    /\ UNCHANGED unchangedByOutput
    /\ UNCHANGED <<files, raised>>

NextOutput ==
    \/ CallCreateOutputFolder
    \/ CallSavefig
    \/ PrintFigureSaved

SpecOutput == InitOutput /\ [][NextOutput]_vars

----------------------------------------------------------------------------

(* quali-telemetry-comparisons/plotting.py: one chart per pair of drivers *)

MaxChartDrivers == 3    \* drivers holding an entry of car_data

\* the pairs (i, j) of positions with i < j, in the order of
\* itertools.combinations: by i, then by j
RECURSIVE PairsFrom(_, _, _)
PairsFrom(i, j, n) ==
    IF i >= n THEN <<>>
    ELSE IF j > n THEN PairsFrom(i + 1, i + 2, n)
    ELSE <<<<i, j>>>> \o PairsFrom(i, j + 1, n)

\* a variant that would pair every key with every other key, both ways round
get_driver_permutations(car) ==
    LET n == Len(car)
        both == [k \in 1..(n * n) |-> <<((k - 1) \div n) + 1, ((k - 1) % n) + 1>>]
        kept == SelectSeq(both, LAMBDA p : p[1] # p[2])
    IN [k \in 1..Len(kept) |-> <<car[kept[k][1]].Driver, car[kept[k][2]].Driver>>]

\* list(itertools.combinations(car_data.keys(), 2))
get_driver_combinations(car) ==
    LET pairs == PairsFrom(1, 2, Len(car))
    IN [k \in 1..Len(pairs) |-> <<car[pairs[k][1]].Driver, car[pairs[k][2]].Driver>>]

\* save_folder / filename of save_figure and of save_delta_figure; the
\* event part of the name is the same for every chart of a run
FigurePath(label) ==
    [folder |-> Path("quali-telemetry-comparisons"), sub |-> "",
     filename |-> label[1] \o "vs" \o label[2] \o ".png"]

DeltaFigurePath(label) ==
    [folder |-> Path("quali-telemetry-comparisons"), sub |-> "delta_graphs",
     filename |-> "delta_" \o label[1] \o "vs" \o label[2] \o ".png"]

\* the loop 'for drv_a, drv_b in combinations' saving with path(label); the
\* loop ends with the first chart whose mkdir or savefig fails (failed,
\* 0 when none does; cause tells which of the two): the files written and
\* the lines printed until then, and the outcome of the last mkdir and
\* savefig
SavePairs(combinations, delta, line, failed, cause) ==
    LET done == IF failed = 0 THEN Len(combinations) ELSE failed - 1
        path(label) == IF delta THEN DeltaFigurePath(label) ELSE FigurePath(label)
    IN [files |-> {path(combinations[k]) : k \in 1..done},
        printed |-> [k \in 1..done |-> [line |-> line, path |-> path(combinations[k])]],
        raised |-> IF failed = 0 THEN "none" ELSE "OSError",
        mkdir_result |-> IF combinations = <<>> THEN "not_called"
                         ELSE IF failed # 0 /\ cause = "mkdir" THEN "failed"
                         ELSE "created",
        write_result |-> IF combinations = <<>> THEN "not_called"
                         ELSE IF failed = 0 THEN "written"
                         ELSE IF cause = "mkdir" THEN "not_called"
                         ELSE "failed"]

create_full_graphs(car, failed, cause) ==
    SavePairs(get_driver_combinations(car), FALSE, "Figure saved to", failed, cause)

create_delta_graphs(car, failed, cause) ==
    SavePairs(get_driver_combinations(car), TRUE, "Delta graph saved to",
              failed, cause)

\* car_data as get_quali_laps_car_data returns it, reduced to its keys
CarDataKeysUpTo(n) ==
    {[i \in 1..Len(ds) |-> [Driver |-> ds[i]]] :
        ds \in {q \in SeqsUpTo({DriverNames[i] : i \in 1..n}, n) : NoRepeat(q)}}

InitPairs ==
    /\ stage = "pairs"
    /\ pc = 0
    /\ laps = <<>>
    /\ results = <<>>
    /\ drivers = <<>>
    /\ fastest_lap_sectors = NoFastest
    /\ fl_sectors_dict = NotCalled(NoFrames)
    /\ fastest_sectors_dict = NotCalled(NoFrames)
    /\ fastest_sector_data = NotCalled(NoTimeDelta)
    /\ sectors_dict = NotCalled(NoTables)
    /\ quali_data = NotCalled(<<>>)
    /\ drivers_quali_times = NotCalled(<<>>)
    /\ race_laps = NotCalled(<<>>)
    /\ transformed_laps = NotCalled(<<>>)
    /\ filled_laps = <<>>
    /\ car_data \in {Returned(car) : car \in CarDataKeysUpTo(MaxChartDrivers)}
    /\ lap_inputs = <<>>
    /\ get_lap_calls = <<>>
    /\ StintsIdle
    /\ script = "quali-telemetry-comparisons"
    /\ figures = 0
    /\ figure = 0
    /\ output_pc = "create_full_graphs"
    /\ save_folder = NoPath
    /\ stdout = <<>>
    /\ files = {}
    /\ raised = "none"
    /\ mkdir_result = "not_called"
    /\ write_result = "not_called"
    /\ RunIdle

unchangedByPairs ==
    <<fastest_lap_sectors, fl_sectors_dict, fastest_sectors_dict, fastest_sector_data,
      sectors_dict, quali_data, drivers_quali_times, race_laps, transformed_laps,
      filled_laps, car_data, lap_inputs, get_lap_calls, quick_laps, stints, stints_table,
      script, figure, save_folder, runVars>>

\* main: create_full_graphs(session_data, car_data, event_info)
CallCreateFullGraphs ==
    /\ stage = "pairs" /\ output_pc = "create_full_graphs"
    /\ \E failed \in 0..Len(get_driver_combinations(car_data.value)),
          cause \in {"mkdir", "savefig"} :
          LET out == create_full_graphs(car_data.value, failed, cause)
          IN /\ files' = files \cup out.files
             /\ mkdir_result' = out.mkdir_result
             /\ write_result' = out.write_result
             /\ stdout' = stdout \o out.printed
             /\ raised' = out.raised
             /\ figures' = figures + Len(out.printed)
             /\ output_pc' = IF out.raised = "none" THEN "create_delta_graphs" ELSE "raised"
    /\ pc' = pc + 1
    /\ UNCHANGED inputs
    /\ UNCHANGED unchangedByPairs

\* main: create_delta_graphs(session_data, car_data, event_info)
CallCreateDeltaGraphs ==
    /\ stage = "pairs" /\ output_pc = "create_delta_graphs"
    /\ \E failed \in 0..Len(get_driver_combinations(car_data.value)),
          cause \in {"mkdir", "savefig"} :
          LET out == create_delta_graphs(car_data.value, failed, cause)
          IN /\ files' = files \cup out.files
             /\ mkdir_result' = out.mkdir_result
             /\ write_result' = out.write_result
             /\ stdout' = stdout \o out.printed
             /\ raised' = out.raised
             /\ figures' = figures + Len(out.printed)
             /\ output_pc' = IF out.raised = "none" THEN "done" ELSE "raised"
    /\ pc' = pc + 1
    /\ UNCHANGED inputs
    /\ UNCHANGED unchangedByPairs

NextPairs ==
    \/ CallCreateFullGraphs
    \/ CallCreateDeltaGraphs

SpecPairs == InitPairs /\ [][NextPairs]_vars

----------------------------------------------------------------------------

(* laps_comparisons/plot.py: get_drivers_styles *)

MaxStyleDrivers == 3    \* entries of the drivers list of session.json

TeamColors == {"#3671C6", "#E8002D"}

\* the loop of get_drivers_styles over the rest of the list
RECURSIVE StylesScan(_, _, _, _)
StylesScan(ds, color_of, styles, seen_colors) ==
    IF ds = <<>> THEN styles
    ELSE LET drv == Head(ds)
             color == color_of[drv]
         IN StylesScan(Tail(ds), color_of,
                SetEntry(styles, [Driver |-> drv, color |-> color,
                                  linestyle |-> IF color \in seen_colors
                                                THEN "dotted" ELSE "solid"]),
                seen_colors \cup {color})

get_drivers_styles(ds, color_of) ==
    Returned(StylesScan(ds, color_of, <<>>, {}))

StyleDrivers == {DriverNames[i] : i \in 1..MaxStyleDrivers}

\* fastf1.plotting.get_driver_color: the colour of the driver's team; a
\* team enters two cars
DriverColors ==
    {c \in [StyleDrivers -> TeamColors] :
        \A t \in TeamColors : Cardinality({d \in StyleDrivers : c[d] = t}) <= 2}

InitStyles ==
    /\ stage = "styles"
    /\ pc = 0
    /\ laps = <<>>
    /\ results = <<>>
    /\ drivers \in SeqsUpTo(StyleDrivers, MaxStyleDrivers)
    /\ fastest_lap_sectors = NoFastest
    /\ fl_sectors_dict = NotCalled(NoFrames)
    /\ fastest_sectors_dict = NotCalled(NoFrames)
    /\ fastest_sector_data = NotCalled(NoTimeDelta)
    /\ sectors_dict = NotCalled(NoTables)
    /\ quali_data = NotCalled(<<>>)
    /\ drivers_quali_times = NotCalled(<<>>)
    /\ race_laps = NotCalled(<<>>)
    /\ transformed_laps = NotCalled(<<>>)
    /\ filled_laps = <<>>
    /\ car_data = NotCalled(<<>>)
    /\ lap_inputs = <<>>
    /\ get_lap_calls = <<>>
    /\ StintsIdle
    /\ OutputIdle
    /\ main_pc = 0
    /\ trace = <<>>
    /\ colors \in DriverColors
    /\ driver_styles = NotCalled(<<>>)
    /\ speed_calls = <<>>

\* create_graph: driver_styles = get_drivers_styles(drivers, session_data)
CallGetDriversStyles ==
    /\ stage = "styles" /\ pc = 0
    /\ driver_styles' = get_drivers_styles(drivers, colors)
    /\ pc' = 1
    /\ UNCHANGED inputs
    /\ UNCHANGED <<fastest_lap_sectors, fl_sectors_dict, fastest_sectors_dict, fastest_sector_data,
                   sectors_dict, quali_data, drivers_quali_times, race_laps, transformed_laps,
                   filled_laps, car_data, lap_inputs, get_lap_calls, quick_laps, stints,
                   stints_table, main_pc, trace, colors, speed_calls>>
    /\ UNCHANGED outputVars

NextStyles == CallGetDriversStyles

SpecStyles == InitStyles /\ [][NextStyles]_vars

----------------------------------------------------------------------------

(* v-comparisons/process.py: the speed tables *)

MaxSpeedLaps == 2   \* laps of the session
MaxSamples == 2     \* telemetry samples of a lap
MaxSpeed == 2       \* largest speed of a sample

\* a statistic is kept as the fraction num / den; den = 0 is NaN
NaNSpeed == [num |-> 0, den |-> 0]

RECURSIVE SumSeq(_)
SumSeq(q) == IF q = <<>> THEN 0 ELSE Head(q) + SumSeq(Tail(q))

\* the samples a Series statistic takes into account (skipna)
Valid(series) == SelectSeq(series, LAMBDA v : v # NaN)

series_min(series) ==
    IF Valid(series) = <<>> THEN NaNSpeed
    ELSE [num |-> CHOOSE v \in Range(Valid(series)) : \A w \in Range(Valid(series)) : v <= w,
          den |-> 1]

series_max(series) ==
    IF Valid(series) = <<>> THEN NaNSpeed
    ELSE [num |-> CHOOSE v \in Range(Valid(series)) : \A w \in Range(Valid(series)) : v >= w,
          den |-> 1]

series_mean(series) ==
    IF Valid(series) = <<>> THEN NaNSpeed
    ELSE [num |-> SumSeq(Valid(series)), den |-> Len(Valid(series))]

SpeedGt(a, b) == a.num * b.den > b.num * a.den

get_driver_speed_column(L, driver) ==
    LET fastest_lap == pick_fastest(pick_drivers(L, driver))
    IN IF fastest_lap = None THEN <<>> ELSE fastest_lap.Speed

\* the list comprehension over the drivers of the results
\* the statistic a table is built from
statistic(stat, series) ==
    IF stat = "min" THEN series_min(series)
    ELSE IF stat = "max" THEN series_max(series)
    ELSE series_mean(series)

RECURSIVE SpeedRows(_, _, _, _)
SpeedRows(L, R, stat, k) ==
    IF k > Len(R) THEN <<>>
    ELSE LET speed == statistic(stat, get_driver_speed_column(L, R[k].Abbreviation))
         IN (IF speed = NaNSpeed THEN <<>>
             ELSE <<[Driver |-> R[k].Abbreviation, Speed |-> speed]>>)
            \o SpeedRows(L, R, stat, k + 1)

\* sort_values(by='Speed', ascending=False)
RECURSIVE SpeedInsert(_, _)
SpeedInsert(sorted, row) ==
    IF sorted = <<>> THEN <<row>>
    ELSE IF SpeedGt(row.Speed, Head(sorted).Speed) THEN <<row>> \o sorted
    ELSE <<Head(sorted)>> \o SpeedInsert(Tail(sorted), row)

RECURSIVE SortSpeeds(_)
SortSpeeds(rows) ==
    IF rows = <<>> THEN <<>>
    ELSE SpeedInsert(SortSpeeds(SubSeq(rows, 1, Len(rows) - 1)), rows[Len(rows)])

\* pd.DataFrame(rows).sort_values(by='Speed', ascending=False); a frame
\* built from no rows has no 'Speed' column
SpeedTable(rows) ==
    IF rows = <<>> THEN Raised("KeyError", <<>>) ELSE Returned(SortSpeeds(rows))

get_drivers_min_speeds(L, R) == SpeedTable(SpeedRows(L, R, "min", 1))

get_drivers_mean_speeds(L, R) == SpeedTable(SpeedRows(L, R, "mean", 1))

get_drivers_max_speeds(L, R) == SpeedTable(SpeedRows(L, R, "max", 1))

\* lap.get_car_data()['Speed']
SpeedTraces == SeqsUpTo({NaN} \cup (1..MaxSpeed), MaxSamples)

SpeedLapRecords == [Driver : AllDrivers, LapTime : Durations, Speed : SpeedTraces]

SpeedLapsUpTo(n) == {L \in SeqsUpTo(SpeedLapRecords, n) : GroupedByDriver(L)}

SpeedResultsUpTo(n) ==
    {[i \in 1..Len(ds) |-> [Abbreviation |-> ds[i]]] :
        ds \in {q \in SeqsUpTo(AllDrivers, n) : NoRepeat(q)}}

InitSpeeds ==
    /\ stage = "speeds"
    /\ pc = 0
    /\ laps \in SpeedLapsUpTo(MaxSpeedLaps)
    /\ results \in SpeedResultsUpTo(MaxDrivers)
    /\ drivers = <<>>
    /\ fastest_lap_sectors = NoFastest
    /\ fl_sectors_dict = NotCalled(NoFrames)
    /\ fastest_sectors_dict = NotCalled(NoFrames)
    /\ fastest_sector_data = NotCalled(NoTimeDelta)
    /\ sectors_dict = NotCalled(NoTables)
    /\ quali_data = NotCalled(<<>>)
    /\ drivers_quali_times = NotCalled(<<>>)
    /\ race_laps = NotCalled(<<>>)
    /\ transformed_laps = NotCalled(<<>>)
    /\ filled_laps = <<>>
    /\ AddedIdle

\* main: one of the three calls, made when the calls before it returned
CallSpeeds(k, table) ==
    /\ stage = "speeds" /\ pc = k - 1
    /\ \A i \in 1..Len(speed_calls) : speed_calls[i].status = "returned"
    /\ speed_calls' = Append(speed_calls, table)
    /\ pc' = k
    /\ UNCHANGED inputs
    /\ UNCHANGED <<fastest_lap_sectors, fl_sectors_dict, fastest_sectors_dict, fastest_sector_data,
                   sectors_dict, quali_data, drivers_quali_times, race_laps, transformed_laps,
                   filled_laps, car_data, lap_inputs, get_lap_calls, quick_laps, stints,
                   stints_table, main_pc, trace, colors, driver_styles>>
    /\ UNCHANGED outputVars

CallGetDriversMinSpeeds == CallSpeeds(1, get_drivers_min_speeds(laps, results))

CallGetDriversMaxSpeeds == CallSpeeds(2, get_drivers_max_speeds(laps, results))

CallGetDriversMeanSpeeds == CallSpeeds(3, get_drivers_mean_speeds(laps, results))

NextSpeeds ==
    \/ CallGetDriversMinSpeeds
    \/ CallGetDriversMaxSpeeds
    \/ CallGetDriversMeanSpeeds

SpecSpeeds == InitSpeeds /\ [][NextSpeeds]_vars

----------------------------------------------------------------------------

(* main.py of the scripts: the statements of main in the order of the     *)
(* source, each a call into the fetch, the process or the plot module.    *)

Call(module, names) == [i \in 1..Len(names) |-> [module |-> module, name |-> names[i]]]

\* the body of main, statement by statement
Statements(s) ==
    IF s = "fastest-lap-sectors" \/ s = "sectors-comparisons"
    THEN Call("fetch", <<"get_input", "get_data", "get_event_info", "get_drivers">>)
         \o Call("process", IF s = "fastest-lap-sectors"
                            THEN <<"get_fastest_lap_sectors", "get_driver_deltas",
                                   "get_fastest_sectors">>
                            ELSE <<"get_drivers_fastest_fl_sectors", "get_drivers_fl_sectors",
                                   "get_drivers_fastest_sectors">>)
         \o Call("plot", <<"create_graph", "create_graph", "create_graph", "create_graph">>)
    ELSE IF s = "gap-to-pole"
    THEN Call("fetch", <<"get_input", "get_data", "get_event_info", "get_drivers">>)
         \o Call("process", <<"get_quali_data">>)
         \o Call("plot", <<"create_graph">>)
    ELSE IF s = "lap-telemetry-comparison"
    THEN Call("fetch", <<"get_input", "get_data", "get_event_info">>)
         \o Call("process", <<"get_lap", "get_lap">>)
         \o Call("plot", <<"create_graph">>)
    ELSE IF s = "laps-comparisons"
    THEN Call("fetch", <<"get_input", "get_data", "get_event_info">>)
         \o Call("process", <<"pick_quicklaps", "pick_racelaps", "create_stints">>)
         \o Call("plot", <<"create_graph">>)
    ELSE IF s = "position-changes"
    THEN Call("fetch", <<"get_input", "get_data", "get_event_info">>)
         \o Call("plot", <<"create_graph">>)
    ELSE IF s = "quali-telemetry-comparisons"
    THEN Call("fetch", <<"get_input", "get_data", "get_event_info", "get_drivers">>)
         \o Call("process", <<"get_quali_laps", "get_quali_laps_car_data">>)
         \o Call("plot", <<"create_full_graphs", "create_delta_graphs">>)
    ELSE IF s = "race_pace_strategies"
    THEN Call("fetch", <<"get_input", "get_data", "get_event_info", "get_drivers">>)
         \o Call("process", <<"get_laps", "get_stints">>)
         \o Call("plot", <<"get_drivers_colors", "create_multi_graph", "create_pace_graph",
                           "create_stints_graph">>)
    ELSE \* v-comparisons
         Call("fetch", <<"get_input", "get_data", "get_drivers", "get_event_info">>)
         \o Call("process", <<"get_drivers_min_speeds", "get_drivers_max_speeds",
                              "get_drivers_mean_speeds">>)
         \o Call("plot", <<"plot_speed_comparisons">>)

Mains == {"fastest-lap-sectors", "gap-to-pole", "lap-telemetry-comparison",
          "laps-comparisons", "position-changes", "quali-telemetry-comparisons",
          "race_pace_strategies", "sectors-comparisons", "v-comparisons"}

\* the calls of the plot module that end in save_figure
SavesChart(name) == name # "get_drivers_colors"

\* 'from process import ...' of main.py finds the names it asks for
Importable(s) == s # "sectors-comparisons"

\* a variant of main that wraps every call in try / except and goes on
after_call_caught(k, ok) == [raised |-> "none", main_pc |-> k + 1]

\* where main stands after statement k returned (ok) or raised: main has no
\* try / except and no loop, an exception leaves main at once
after_call(k, ok) ==
    IF ok THEN [raised |-> "none", main_pc |-> k + 1]
    ELSE [raised |-> "Exception", main_pc |-> k]

InitMain ==
    /\ stage = "main"
    /\ pc = 0
    /\ laps = <<>>
    /\ results = <<>>
    /\ drivers = <<>>
    /\ fastest_lap_sectors = NoFastest
    /\ fl_sectors_dict = NotCalled(NoFrames)
    /\ fastest_sectors_dict = NotCalled(NoFrames)
    /\ fastest_sector_data = NotCalled(NoTimeDelta)
    /\ sectors_dict = NotCalled(NoTables)
    /\ quali_data = NotCalled(<<>>)
    /\ drivers_quali_times = NotCalled(<<>>)
    /\ race_laps = NotCalled(<<>>)
    /\ transformed_laps = NotCalled(<<>>)
    /\ filled_laps = <<>>
    /\ car_data = NotCalled(<<>>)
    /\ lap_inputs = <<>>
    /\ get_lap_calls = <<>>
    /\ StintsIdle
    /\ script \in Mains
    /\ figures = 0
    /\ figure = 0
    /\ output_pc = "idle"
    /\ save_folder = NoPath
    /\ stdout = <<>>
    /\ files = {}
    /\ raised = "none"
    /\ mkdir_result = "not_called"
    /\ write_result = "not_called"
    /\ RunIdle

unchangedByMain ==
    <<fastest_lap_sectors, fl_sectors_dict, fastest_sectors_dict, fastest_sector_data,
      sectors_dict, quali_data, drivers_quali_times, race_laps, transformed_laps,
      filled_laps, car_data, lap_inputs, get_lap_calls, quick_laps, stints, stints_table,
      script, figures, figure, output_pc, save_folder, mkdir_result, write_result,
      colors, driver_styles, speed_calls>>

\* the imports at the head of main.py
MainImport ==
    /\ stage = "main" /\ main_pc = 0 /\ raised = "none"
    /\ IF Importable(script)
       THEN main_pc' = 1 /\ raised' = "none"
       ELSE main_pc' = 0 /\ raised' = "ImportError"
    /\ pc' = pc + 1
    /\ UNCHANGED inputs
    /\ UNCHANGED unchangedByMain
    /\ UNCHANGED <<trace, files, stdout>>

\* statement main_pc of main, a call into module m that returns or raises
MainCall(m) ==
    /\ stage = "main" /\ raised = "none"
    /\ main_pc \in 1..Len(Statements(script))
    /\ Statements(script)[main_pc].module = m
    /\ \E ok \in BOOLEAN :
          LET saved == ok /\ m = "plot" /\ SavesChart(Statements(script)[main_pc].name)
          IN /\ trace' = Append(trace, [statement |-> main_pc, module |-> m, ok |-> ok])
             /\ main_pc' = after_call(main_pc, ok).main_pc
             /\ raised' = after_call(main_pc, ok).raised
             /\ files' = IF saved THEN files \cup {[script |-> script, statement |-> main_pc]}
                         ELSE files
             /\ stdout' = IF saved
                          THEN Append(stdout, [line |-> "Figure saved to",
                                               statement |-> main_pc])
                          ELSE stdout
    /\ pc' = pc + 1
    /\ UNCHANGED inputs
    /\ UNCHANGED unchangedByMain

MainFetch == MainCall("fetch")

MainProcess == MainCall("process")

MainPlot == MainCall("plot")

NextMain ==
    \/ MainImport
    \/ MainFetch
    \/ MainProcess
    \/ MainPlot

SpecMain == InitMain /\ [][NextMain]_vars

----------------------------------------------------------------------------

(* All runs *)

Init == InitSectors \/ InitQuali \/ InitLaps \/ InitTelemetry \/ InitStints
        \/ InitOutput \/ InitMain \/ InitPairs \/ InitStyles \/ InitSpeeds

Next == NextSectors \/ NextQuali \/ NextLaps \/ NextTelemetry \/ NextStints
        \/ NextOutput \/ NextMain \/ NextPairs \/ NextStyles \/ NextSpeeds

Spec == Init /\ [][Next]_vars

----------------------------------------------------------------------------
(* Properties of the qualifying tables *)

ResultIndex(d) == CHOOSE i \in 1..Len(results) : results[i].Abbreviation = d

Requested(i) == results[i].Abbreviation \in Range(drivers)

\* C3: for every requested driver with a time, get_quali_data and
\* get_quali_laps choose the time of the last phase (in the order Q1, Q2,
\* Q3) in which the driver has a time, and record that phase; the choice is
\* not the minimum of the three.
C3_LastPhaseDetermines ==
    /\ quali_data.status = "returned" =>
         \A i \in 1..Len(results) :
            (Requested(i) /\ PhaseRank(results[i]) > 0) =>
                /\ Cardinality({k \in 1..Len(quali_data.value) :
                                  quali_data.value[k].Driver = results[i].Abbreviation}) = 1
                /\ \A k \in 1..Len(quali_data.value) :
                      quali_data.value[k].Driver = results[i].Abbreviation =>
                         /\ quali_data.value[k].Session = Phases[PhaseRank(results[i])]
                         /\ quali_data.value[k].LapTime = results[i][Phases[PhaseRank(results[i])]]
    /\ drivers_quali_times.status = "returned" =>
         \A i \in 1..Len(results) :
            (Requested(i) /\ PhaseRank(results[i]) > 0) =>
                /\ drivers_quali_times.value[results[i].Abbreviation].quali_phase
                      = Phases[PhaseRank(results[i])]
                /\ drivers_quali_times.value[results[i].Abbreviation].laptime
                      = results[i][Phases[PhaseRank(results[i])]]

\* a requested driver whose Q3 time is slower than the Q2 time, and one
\* with a Q1 time, no Q2 time and a Q3 time, both settled by Q3
C3_Witness ==
    /\ pc = 2
    /\ \E i \in 1..Len(results) :
          /\ Requested(i)
          /\ results[i].Q2 # NaT /\ results[i].Q3 # NaT /\ results[i].Q2 < results[i].Q3
          /\ drivers_quali_times.value[results[i].Abbreviation].laptime = results[i].Q3
          /\ \E k \in 1..Len(quali_data.value) :
                quali_data.value[k].Driver = results[i].Abbreviation
                /\ quali_data.value[k].LapTime = results[i].Q3
    /\ \E i \in 1..Len(results) :
          /\ Requested(i)
          /\ results[i].Q1 # NaT /\ results[i].Q2 = NaT /\ results[i].Q3 # NaT
          /\ drivers_quali_times.value[results[i].Abbreviation].quali_phase = "Q3"

\* C4: the row of the pole-sitter (first row of the session results) has
\* GapToPole = 0.000, for any results table and any driver list that
\* contains the pole-sitter.
C4_PoleGapZero ==
    quali_data.status = "returned" =>
        \A k \in 1..Len(quali_data.value) :
            quali_data.value[k].Driver = results[1].Abbreviation =>
                quali_data.value[k].GapToPole = 0

\* C5: in every row GapToPole is the row's lap time minus the Q3 time of
\* the first row of the session results, rounded to the millisecond (an
\* exact half to the even millisecond); the reference is the same for every
\* row and whatever drivers were requested.  With no Q3 time in the first
\* row the difference, and so the gap, is missing.
C5_GapIsRoundedDifference ==
    quali_data.status = "returned" =>
        \A k \in 1..Len(quali_data.value) :
            LET gap == quali_data.value[k].GapToPole
                d == quali_data.value[k].LapTime - results[1].Q3
                err == IF gap >= d THEN gap - d ELSE d - gap
            IN IF results[1].Q3 = NaT THEN gap = NaN
               ELSE /\ gap % Resolution = 0
                    /\ 2 * err <= Resolution
                    /\ 2 * err = Resolution => (gap \div Resolution) % 2 = 0

\* the pole-sitter is not requested, and a row's gap is a difference that
\* rounding changed
C5_Witness ==
    /\ quali_data.status = "returned"
    /\ ~Requested(1)
    /\ results[1].Q3 # NaT
    /\ \E k \in 1..Len(quali_data.value) :
          /\ quali_data.value[k].GapToPole # 0
          /\ quali_data.value[k].GapToPole # NaN
          /\ (quali_data.value[k].LapTime - results[1].Q3) % Resolution # 0

\* C10 as stated: the table handed to the rendering stage is ordered by
\* lap time ascending, so that GapToPole does not decrease down the table.
C10_SortedByLapTime ==
    quali_data.status = "returned" =>
        \A k \in 1..(Len(quali_data.value) - 1) :
            /\ quali_data.value[k].LapTime <= quali_data.value[k + 1].LapTime
            /\ \/ quali_data.value[k].GapToPole = NaN
               \/ quali_data.value[k + 1].GapToPole = NaN
               \/ quali_data.value[k].GapToPole <= quali_data.value[k + 1].GapToPole

\* C10 amended: the table keeps the order of the session results (the
\* classification), restricted to the requested drivers with a time; the
\* gap does not decrease with the lap time, whatever the row index.
C10_ResultsOrder ==
    quali_data.status = "returned" =>
        /\ \A k \in 1..Len(quali_data.value) :
              \E i \in 1..Len(results) : results[i].Abbreviation = quali_data.value[k].Driver
        /\ \A k \in 1..(Len(quali_data.value) - 1) :
              ResultIndex(quali_data.value[k].Driver) < ResultIndex(quali_data.value[k + 1].Driver)
        /\ \A k, m \in 1..Len(quali_data.value) :
              (quali_data.value[k].LapTime <= quali_data.value[m].LapTime
               /\ quali_data.value[k].GapToPole # NaN)
                 => quali_data.value[k].GapToPole <= quali_data.value[m].GapToPole

\* two rows, the first (better classified) with the slower lap
C10_Witness ==
    /\ quali_data.status = "returned"
    /\ Len(quali_data.value) = 2
    /\ quali_data.value[1].LapTime > quali_data.value[2].LapTime
    /\ quali_data.value[1].GapToPole > quali_data.value[2].GapToPole
    /\ quali_data.value[1].GapToPole # NaN

----------------------------------------------------------------------------
(* Properties of the sector tables *)

\* the minimum Delta of a non-empty table is 0 and no Delta is negative
MinDeltaZero(T) ==
    T # <<>> => /\ \E i \in 1..Len(T) : T[i].Delta = 0
                /\ \A i \in 1..Len(T) : ~FLt(T[i].Delta, 0)

FiniteTimes(T) ==
    \A i \in 1..Len(T) : T[i].Time # NaN /\ T[i].Time >= 0 /\ T[i].Time < Inf

SortedByTime(T) == \A i \in 1..(Len(T) - 1) : FLe(T[i].Time, T[i + 1].Time)

\* the supplied drivers who hold the best time of the session in sector s
HoldersOfSessionBest(s) ==
    {d \in Range(drivers) :
        \E j \in 1..Len(laps) :
            /\ laps[j].Driver = d
            /\ laps[j][s] # NaT
            /\ \A m \in 1..Len(laps) : laps[m][s] # NaT => laps[j][s] <= laps[m][s]}

HasSectorTime(d, s) == \E j \in 1..Len(laps) : laps[j].Driver = d /\ laps[j][s] # NaT

\* C1 as stated: in every non-empty table of the fastest-lap selection
\* (get_fastest_lap_sectors then get_driver_deltas of fastest-lap-sectors,
\* get_fastest_lap_sectors of sectors-comparisons) the minimum Delta is 0
\* and no Delta is negative.
C1_FastestLapMinDeltaZero ==
    /\ fl_sectors_dict.status = "returned" =>
          \A i \in 1..3 : MinDeltaZero(fl_sectors_dict.value[i])
    /\ sectors_dict.status = "returned" =>
          \A s \in SectorSet : MinDeltaZero(sectors_dict.value[s])

\* C2 as stated: in every non-empty table of the fastest-individual-sector
\* selection the minimum Delta is 0 and no Delta is negative, for any
\* supplied driver list.
C2_IndividualMinDeltaZero ==
    /\ fastest_sectors_dict.status = "returned" =>
          \A i \in 1..3 : MinDeltaZero(fastest_sectors_dict.value[i])
    /\ fastest_sector_data.status = "returned" =>
          \A s \in SectorSet : /\ MinDeltaZero(fastest_sector_data.value.time[s])
                               /\ MinDeltaZero(fastest_sector_data.value.delta[s])

\* no Delta is negative or missing, and some Delta is 0 exactly when a
\* supplied driver holds the best time of the whole session in the sector
DeltaAgainstSession(T, s) ==
    /\ \A i \in 1..Len(T) : T[i].Delta # NaN /\ T[i].Delta >= 0
    /\ T # <<>> => ((\E i \in 1..Len(T) : T[i].Delta = 0) <=> HoldersOfSessionBest(s) # {})

\* C2 amended: in every non-empty table of the fastest-individual-sector
\* selection no Delta is negative, and the minimum Delta is 0 when (and
\* only when) the supplied list contains a driver holding the session's
\* best time of that sector; it is positive for a list that leaves every
\* such driver out.
C2_IndividualDeltaAgainstSession ==
    /\ fastest_sectors_dict.status = "returned" =>
          \A i \in 1..3 : DeltaAgainstSession(fastest_sectors_dict.value[i], SectorNames[i])
    /\ fastest_sector_data.status = "returned" =>
          \A s \in SectorSet : /\ DeltaAgainstSession(fastest_sector_data.value.time[s], s)
                               /\ DeltaAgainstSession(fastest_sector_data.value.delta[s], s)

\* both scripts returned tables for a list that leaves out the driver
\* with the best first sector: the smallest Delta is positive
C2_Witness ==
    /\ fastest_sectors_dict.status = "returned"
    /\ fastest_sector_data.status = "returned"
    /\ HoldersOfSessionBest("Sector1Time") = {}
    /\ fastest_sectors_dict.value[1] # <<>>
    /\ \A i \in 1..Len(fastest_sectors_dict.value[1]) : fastest_sectors_dict.value[1][i].Delta > 0
    /\ \A i \in 1..Len(fastest_sector_data.value.time["Sector1Time"]) :
          fastest_sector_data.value.time["Sector1Time"][i].Delta > 0

\* C7 as stated: building the fastest-individual-sector tables succeeds,
\* and each table holds exactly one row for every supplied driver with a
\* time in the sector and no row (no placeholder) for one without.
C7_OneRowPerTimedDriver ==
    (fastest_sector_data.status # "not_called" /\ drivers # <<>>) =>
        /\ fastest_sector_data.status = "returned"
        /\ \A s \in SectorSet : \A d \in Range(drivers) :
              Cardinality({i \in 1..Len(fastest_sector_data.value.time[s]) :
                              fastest_sector_data.value.time[s][i].Driver = d})
                 = IF HasSectorTime(d, s) THEN 1 ELSE 0

\* C8 as stated: every row of a fastest-lap sector table has a finite,
\* non-negative, non-missing Time.
C8_FastestLapTimesPresent ==
    /\ fl_sectors_dict.status = "returned" =>
          \A i \in 1..3 : FiniteTimes(fl_sectors_dict.value[i])
    /\ sectors_dict.status = "returned" =>
          \A s \in SectorSet : FiniteTimes(sectors_dict.value[s])

\* C9 as stated: every table of the fastest-lap and of the
\* fastest-individual-sector selections is sorted ascending by Time: row i
\* has Time <= row i+1.
C9_TablesSortedByTime ==
    /\ fl_sectors_dict.status = "returned" =>
          \A i \in 1..3 : SortedByTime(fl_sectors_dict.value[i])
    /\ sectors_dict.status = "returned" =>
          \A s \in SectorSet : SortedByTime(sectors_dict.value[s])
    /\ fastest_sectors_dict.status = "returned" =>
          \A i \in 1..3 : SortedByTime(fastest_sectors_dict.value[i])
    /\ fastest_sector_data.status = "returned" =>
          \A s \in SectorSet : /\ SortedByTime(fastest_sector_data.value.time[s])
                               /\ SortedByTime(fastest_sector_data.value.delta[s])

----------------------------------------------------------------------------
(* Properties of the race-lap tables *)

AllSectorsPresent(l) ==
    l.Sector1Time # NaT /\ l.Sector2Time # NaT /\ l.Sector3Time # NaT

\* C6: in the table either fill_missing_laps returns, a lap without LapTime
\* and with its three sector times has 'LapTime (s)' equal to their sum,
\* and a lap without LapTime and without some sector time keeps a missing
\* 'LapTime (s)'.
C6_BackfillLaw ==
    \A t \in 1..Len(filled_laps) : \A i \in 1..Len(filled_laps[t]) :
        LET l == filled_laps[t][i]
        IN l.LapTime = NaT =>
              IF AllSectorsPresent(l)
              THEN l["LapTime (s)"] = l.Sector1Time + l.Sector2Time + l.Sector3Time
              ELSE l["LapTime (s)"] = NaN

\* a returned table with a backfilled lap and a lap left without a time
BackfillCases(T) ==
    /\ \E i \in 1..Len(T) :
          /\ T[i].LapTime = NaT /\ AllSectorsPresent(T[i])
          /\ T[i]["LapTime (s)"] = T[i].Sector1Time + T[i].Sector2Time + T[i].Sector3Time
    /\ \E i \in 1..Len(T) :
          /\ T[i].LapTime = NaT /\ ~AllSectorsPresent(T[i])
          /\ T[i].Sector1Time # NaT
          /\ T[i]["LapTime (s)"] = NaN

C6_Witness ==
    /\ stage = "race_pace_strategies"
    /\ pc = 1
    /\ BackfillCases(filled_laps[1])

C6_WitnessRacelaps ==
    /\ stage = "laps-comparisons"
    /\ pc = 1
    /\ \E t \in 1..Len(filled_laps) : BackfillCases(filled_laps[t])

----------------------------------------------------------------------------
(* Drivers without a qualifying time *)

NoPhaseTime(row) == \A j \in 1..Len(Phases) : isna(row[Phases[j]])

\* C11: a requested driver of the results with no time in Q1, Q2 and Q3 is
\* recorded by get_quali_laps with the phase marker 'NoTime' (and no lap
\* time), gets no row (hence no GapToPole) from get_quali_data and no entry
\* from get_quali_laps_car_data, and none of the three calls raises.
C11_NoTimeDriverExcluded ==
    \A i \in 1..Len(results) :
        (Requested(i) /\ NoPhaseTime(results[i])) =>
            LET d == results[i].Abbreviation
            IN /\ quali_data.status # "not_called" =>
                    /\ quali_data.status = "returned"
                    /\ \A k \in 1..Len(quali_data.value) : quali_data.value[k].Driver # d
               /\ drivers_quali_times.status # "not_called" =>
                    /\ drivers_quali_times.status = "returned"
                    /\ drivers_quali_times.value[d].quali_phase = "NoTime"
                    /\ drivers_quali_times.value[d].laptime = PyNone
               /\ car_data.status # "not_called" =>
                    /\ car_data.status = "returned"
                    /\ \A k \in 1..Len(car_data.value) : car_data.value[k].Driver # d

\* the three calls were made for two requested drivers, one without a time
\* (but with a lap in the session) and one whose lap was found
C11_Witness ==
    /\ stage = "quali" /\ pc = 3
    /\ \E i \in 1..Len(results) :
          /\ Requested(i) /\ NoPhaseTime(results[i])
          /\ pick_drivers(laps, results[i].Abbreviation) # <<>>
    /\ Len(car_data.value) = 1
    /\ Len(quali_data.value) = 1

----------------------------------------------------------------------------
(* Lap selectors of get_lap *)

DriverLaps(k) == pick_drivers(laps, drivers[k])

\* the selector of call k is a lap number or a lap time that none of the
\* driver's laps has
MatchesNoLap(k) ==
    \/ /\ lap_inputs[k].type = "int"
       /\ \A i \in 1..Len(DriverLaps(k)) : DriverLaps(k)[i].LapNumber # lap_inputs[k].n
    \/ /\ lap_inputs[k].type = "str"
       /\ WellFormed(lap_inputs[k].text)
       /\ \A i \in 1..Len(DriverLaps(k)) :
             DriverLaps(k)[i].LapTime # to_timedelta(lap_inputs[k].text)

\* C12: whenever the explicit selector of a get_lap call (a lap number or
\* a lap time string) matches none of the driver's laps, the call raises the
\* invalid-selector error (ValueError) whose message names the selector and
\* the driver; it never returns.
C12_InvalidSelectorReported ==
    \A k \in 1..Len(get_lap_calls) :
        MatchesNoLap(k) =>
            /\ get_lap_calls[k].status = "ValueError"
            /\ "selector" \in DOMAIN get_lap_calls[k].message
            /\ "driver" \in DOMAIN get_lap_calls[k].message
            /\ get_lap_calls[k].message.selector = lap_inputs[k]
            /\ get_lap_calls[k].message.driver = drivers[k]

\* C13: a get_lap call whose selector is neither an integer nor a string
\* raises TypeError, a call whose selector is a string that is no lap time
\* raises ValueError, and in both cases car_data is what it was before the
\* call (no lap selected, no entry produced for the driver).
C13_MalformedSelectorRaises ==
    \A k \in 1..Len(get_lap_calls) :
        /\ lap_inputs[k].type \notin {"int", "str"} =>
              /\ get_lap_calls[k].status = "TypeError"
              /\ get_lap_calls[k].value = CarDataBefore(k)
        /\ (lap_inputs[k].type = "str" /\ ~WellFormed(lap_inputs[k].text)) =>
              /\ get_lap_calls[k].status = "ValueError"
              /\ get_lap_calls[k].value = CarDataBefore(k)

\* the second call, made after the first stored an entry, was given a
\* selector of another type
C13_Witness ==
    /\ stage = "lap-telemetry" /\ Len(get_lap_calls) = 2
    /\ Len(get_lap_calls[1].value) = 1
    /\ lap_inputs[2].type = "float"
    /\ drivers[1] # drivers[2]

\* the first call was given a string that is no lap time
C13_WitnessMalformed ==
    /\ stage = "lap-telemetry" /\ Len(get_lap_calls) = 1
    /\ lap_inputs[1].type = "str" /\ ~WellFormed(lap_inputs[1].text)
    /\ pick_drivers(laps, drivers[1]) # <<>>

----------------------------------------------------------------------------
(* Drivers without a valid lap in the fastest-lap sector selection *)

HasValidLap(d) == \E j \in 1..Len(laps) : laps[j].Driver = d /\ laps[j].LapTime # NaT

WithValidLap == SelectSeq(drivers, HasValidLap)

NoRowOf(T, d) == \A k \in 1..Len(T) : T[k].Driver # d

----------------------------------------------------------------------------
(* The reference of the fastest-individual-sector selection *)

\* the least non-missing time of sector s among the laps selected by keep
LeastTime(s, keep(_)) ==
    CHOOSE t \in 1..MaxTime :
        /\ \E j \in 1..Len(laps) : keep(laps[j]) /\ laps[j][s] = t
        /\ \A j \in 1..Len(laps) : (keep(laps[j]) /\ laps[j][s] # NaT) => t <= laps[j][s]

IndividualRow(row, s) ==
    LET OfDriver(l) == l.Driver = row.Driver
        OfSession(l) == TRUE
    IN /\ HasSectorTime(row.Driver, s)
       /\ row.Time = LeastTime(s, OfDriver)
       /\ row.Delta = row.Time - LeastTime(s, OfSession)

\* C15: every row of every table of the fastest-individual-sector selection
\* (get_fastest_sectors of fastest-lap-sectors, get_fastest_sector_data of
\* sectors-comparisons) has for Time the least non-missing time of its
\* driver in the sector over all of the driver's laps, and for Delta that
\* Time minus the least non-missing time of the sector over all laps of the
\* session, whichever drivers were supplied.
C15_ReferenceIsSessionMinimum ==
    /\ fastest_sectors_dict.status = "returned" =>
          \A i \in 1..3 : \A k \in 1..Len(fastest_sectors_dict.value[i]) :
              IndividualRow(fastest_sectors_dict.value[i][k], SectorNames[i])
    /\ fastest_sector_data.status = "returned" =>
          \A s \in SectorSet :
              /\ \A k \in 1..Len(fastest_sector_data.value.time[s]) :
                    IndividualRow(fastest_sector_data.value.time[s][k], s)
              /\ \A k \in 1..Len(fastest_sector_data.value.delta[s]) :
                    IndividualRow(fastest_sector_data.value.delta[s][k], s)

\* both scripts returned tables for a single supplied driver who is slower
\* in the second sector than a driver who was not supplied
C15_Witness ==
    /\ fastest_sectors_dict.status = "returned"
    /\ fastest_sector_data.status = "returned"
    /\ Len(drivers) = 1
    /\ \E j \in 1..Len(laps) :
          /\ laps[j].Driver # drivers[1]
          /\ laps[j].Sector2Time # NaT
          /\ laps[j].Sector2Time < fastest_sectors_dict.value[2][1].Time
    /\ fastest_sectors_dict.value[2][1].Delta > 0
    /\ fastest_sector_data.value.time["Sector2Time"][1].Delta > 0

----------------------------------------------------------------------------
(* The laps kept as race laps *)

\* a lap as session.laps holds it, without the derived 'LapTime (s)' column
SessionLap(l) == [f \in DOMAIN l \ {"LapTime (s)"} |-> l[f]]

Representative(l) ==
    /\ l.PitInTime = NaT /\ l.PitOutTime = NaT
    /\ \A k \in 1..Len(l.TrackStatus) : l.TrackStatus[k] \notin {4, 5, 6, 7}

\* C16: the table pick_racelaps returns for a driver holds exactly the laps
\* of that driver that are neither in laps nor out laps and whose track
\* status has none of the codes 4, 5, 6, 7 (a lap without a track status
\* included), in session order; every lap of the table get_laps returns has
\* none of those codes in its track status either.
C16_RaceLapsFilter ==
    /\ race_laps.status # "not_called" =>
          /\ race_laps.status = "returned"
          /\ \A d \in Range(drivers) :
                [k \in 1..Len(race_laps.value[d]) |-> SessionLap(race_laps.value[d][k])]
                = SelectSeq(laps, LAMBDA l : l.Driver = d /\ Representative(l))
    /\ transformed_laps.status # "not_called" =>
          /\ transformed_laps.status = "returned"
          /\ \A k \in 1..Len(transformed_laps.value.transformed_laps) :
                LET l == transformed_laps.value.transformed_laps[k]
                IN \A m \in 1..Len(l.TrackStatus) : l.TrackStatus[m] \notin {4, 5, 6, 7}

\* pick_racelaps kept a lap without a track status and left out an out lap
\* or a lap under a neutralisation of the same driver
C16_Witness ==
    /\ stage = "laps-comparisons" /\ pc = 1
    /\ \E d \in Range(drivers) :
          /\ \E k \in 1..Len(race_laps.value[d]) : race_laps.value[d][k].TrackStatus = <<>>
          /\ \E j \in 1..Len(laps) :
                laps[j].Driver = d /\ (laps[j].PitOutTime # NaT \/ laps[j].TrackStatus = <<2, 4>>)

\* get_laps kept a lap of a classified driver and dropped a neutralised one
C16_WitnessGetLaps ==
    /\ stage = "race_pace_strategies" /\ pc = 1
    /\ transformed_laps.value.transformed_laps # <<>>
    /\ \E j \in 1..Len(laps) :
          /\ laps[j].TrackStatus = <<2, 4>>
          /\ laps[j].PitInTime = NaT /\ laps[j].PitOutTime = NaT
          /\ laps[j].LapTime # NaT

----------------------------------------------------------------------------
(* Stints *)

SameStint(a, b) == (a = NaN /\ b = NaN) \/ (a # NaN /\ b # NaN /\ a = b)

RECURSIVE TotalLaps(_)
TotalLaps(groups) ==
    IF groups = <<>> THEN 0 ELSE Len(Head(groups).laps) + TotalLaps(Tail(groups))

\* groups is a partition of the table T by stint number
PartitionByStint(T, groups) ==
    /\ TotalLaps(groups) = Len(T)
    /\ UNION {Range(groups[g].laps) : g \in 1..Len(groups)} = Range(T)
    /\ \A g \in 1..Len(groups) :
          /\ groups[g].laps # <<>>
          /\ \A k \in 1..Len(groups[g].laps) : SameStint(groups[g].laps[k].Stint, groups[g].stint)
          /\ groups[g].laps = SelectSeq(T, LAMBDA l : l \in Range(groups[g].laps))
    /\ \A g, h \in 1..Len(groups) :
          g # h => /\ Range(groups[g].laps) \cap Range(groups[h].laps) = {}
                   /\ ~(groups[g].stint # NaN /\ groups[g].stint = groups[h].stint)

\* C17: for every driver of the table mapping handed to create_stints, the
\* stint groups of the driver partition the driver's laps: every lap is in
\* exactly one group, the one keyed by its Stint number, the laps of a
\* group are in their original relative order with their fields unchanged,
\* the groups together hold exactly the driver's laps, and a driver without
\* laps has no group.
C17_StintsPartition ==
    stints.status # "not_called" =>
        /\ stints.status = "returned"
        /\ DOMAIN stints.value = DOMAIN quick_laps.value
        /\ \A d \in DOMAIN quick_laps.value :
              PartitionByStint(quick_laps.value[d], stints.value[d])

\* create_stints grouped three laps of one driver whose stint numbers
\* alternate, for a list holding also a driver without laps
C17_Witness ==
    /\ stints.status = "returned"
    /\ \E d \in DOMAIN stints.value :
          /\ Len(quick_laps.value[d]) = 3
          /\ Len(stints.value[d]) = 2
          /\ quick_laps.value[d][1].Stint = quick_laps.value[d][3].Stint
          /\ quick_laps.value[d][1].Stint # quick_laps.value[d][2].Stint
          /\ quick_laps.value[d][2].Stint # NaN
    /\ \E d \in DOMAIN stints.value : stints.value[d] = <<>>

\* the (Driver, Stint, Compound) combinations of the session laps
Combinations == {[Driver |-> laps[j].Driver, Stint |-> laps[j].Stint,
                  Compound |-> laps[j].Compound] : j \in 1..Len(laps)}

RowKey(row) == [Driver |-> row.Driver, Stint |-> row.Stint, Compound |-> row.Compound]

RECURSIVE SumStintLength(_, _)
SumStintLength(T, d) ==
    IF T = <<>> THEN 0
    ELSE (IF Head(T).Driver = d THEN Head(T).StintLength ELSE 0) + SumStintLength(Tail(T), d)

\* C18: the table get_stints returns has exactly one row for every
\* (Driver, Stint, Compound) combination of the session laps, the row's
\* StintLength is the number of laps of that combination, and the
\* StintLength values of a driver add up to the number of laps of the
\* driver.
C18_StintLengths ==
    stints_table.status # "not_called" =>
        /\ stints_table.status = "returned"
        /\ {RowKey(stints_table.value[k]) : k \in 1..Len(stints_table.value)} = Combinations
        /\ \A k, m \in 1..Len(stints_table.value) :
              k # m => RowKey(stints_table.value[k]) # RowKey(stints_table.value[m])
        /\ \A k \in 1..Len(stints_table.value) :
              stints_table.value[k].StintLength =
                 Cardinality({j \in 1..Len(laps) :
                                 /\ laps[j].Driver = stints_table.value[k].Driver
                                 /\ laps[j].Stint = stints_table.value[k].Stint
                                 /\ laps[j].Compound = stints_table.value[k].Compound})
        /\ \A d \in AllDrivers :
              SumStintLength(stints_table.value, d) = Len(pick_drivers(laps, d))

----------------------------------------------------------------------------
(* Failures while saving a chart *)

CouldNotCreate(s) == [line |-> "Could not create directory", path |-> Path(s)]

ConfirmedCharts == {stdout[k].chart : k \in {j \in 1..Len(stdout) : stdout[j].line = "Figure saved to"}}

\* C19: in a script whose create_output_folder guards mkdir, a failure of
\* mkdir is caught and logged, the attempted path is returned and the run
\* goes on to the file write with that path; a failure of that write is not
\* caught: it ends the run, and no confirmation line is printed for the
\* chart.
C19_GuardedFolderCreation ==
    (stage = "output" /\ script \in Guarded) =>
        /\ mkdir_result = "failed" =>
              /\ output_pc # "create_output_folder"
              /\ save_folder = Path(script)
              /\ \E k \in 1..Len(stdout) : stdout[k] = CouldNotCreate(script)
              /\ write_result = "not_called" => (output_pc = "savefig" /\ raised = "none")
        /\ write_result = "failed" =>
              /\ output_pc = "raised"
              /\ raised # "none"
              /\ figure \notin ConfirmedCharts
              /\ \A f \in files : f.chart # figure

\* mkdir failed for the second chart of a guarded script, the failure was
\* logged, and the write that followed failed and ended the run
C19_Witness ==
    /\ stage = "output" /\ script \in Guarded
    /\ figure = 2
    /\ mkdir_result = "failed"
    /\ stdout[Len(stdout)] = CouldNotCreate(script)
    /\ write_result = "failed"
    /\ output_pc = "raised"

\* C20: in lap-telemetry-comparison and quali-telemetry-comparisons, when
\* creating the directory fails the exception is printed and
\* create_output_folder still returns the attempted path: the failure does
\* not leave create_output_folder.
C20_UnguardedFolderCreation ==
    (stage = "output" /\ script \in Unguarded /\ mkdir_result = "failed") =>
        /\ raised = "none" \/ write_result = "failed"
        /\ save_folder = Path(script)
        /\ \E k \in 1..Len(stdout) : stdout[k] = CouldNotCreate(script)

----------------------------------------------------------------------------
(* Order of the rows of equal Time *)

\* the driver lists that supply the same drivers as the run, in any order
Reorderings == {ds \in DriverLists : Len(ds) = Len(drivers) /\ Range(ds) = Range(drivers)}

\* C21: every sector table is determined by the session laps and the set
\* of supplied drivers: the same selection gives the identical row order and
\* Delta values, rows of exactly equal Time included, in whichever order
\* the drivers were supplied (ties are broken by a key of the rows, not by
\* the order of the driver list).
C21_TiesBrokenByKey ==
    \A ds \in Reorderings :
        /\ fl_sectors_dict.status = "returned" =>
              fl_sectors_dict =
                  FLS_get_driver_deltas(laps, ds, FLS_get_fastest_lap_sectors(laps, ds).value)
        /\ fastest_sectors_dict.status = "returned" =>
              fastest_sectors_dict = FLS_get_fastest_sectors(laps, ds)
        /\ fastest_sector_data.status = "returned" =>
              fastest_sector_data = SC_get_fastest_sector_data(laps, ds)

----------------------------------------------------------------------------
(* The stages of main *)

ModuleRank(m) == IF m = "fetch" THEN 1 ELSE IF m = "process" THEN 2 ELSE 3

\* the statements of the script that call into module m
StatementsOf(m) ==
    {k \in 1..Len(Statements(script)) : Statements(script)[k].module = m}

Completed(k) == \E i \in 1..Len(trace) : trace[i].statement = k /\ trace[i].ok

C22_WitnessChart ==
    /\ stage = "main"
    /\ Cardinality(files) = 1
    /\ Cardinality(StatementsOf("process")) = 3
    /\ Len(stdout) = 1

----------------------------------------------------------------------------
(* One chart per pair of drivers *)

\* the lines printed by the function that prints line
LinesOf(line) == SelectSeq(stdout, LAMBDA l : l.line = line)

\* position of driver d among the keys of car_data
KeyIndex(d) == CHOOSE i \in 1..Len(car_data.value) : car_data.value[i].Driver = d

\* lines is one line for every pair of distinct keys of car_data, the pair
\* taken once with its first driver ahead of its second in key order, and
\* no two lines name the same path
OnePerPair(lines, path(_)) ==
    LET n == Len(car_data.value)
    IN /\ Len(lines) = (n * (n - 1)) \div 2
       /\ \A i, j \in 1..n :
             i < j => \E k \in 1..Len(lines) :
                          lines[k].path = path(<<car_data.value[i].Driver,
                                                 car_data.value[j].Driver>>)
       /\ \A k \in 1..Len(lines) :
             \E i, j \in 1..n :
                 /\ i < j
                 /\ lines[k].path = path(<<car_data.value[i].Driver,
                                           car_data.value[j].Driver>>)
       /\ \A k, m \in 1..Len(lines) : k # m => lines[k].path # lines[m].path
       /\ \A k \in 1..Len(lines) : lines[k].path \in files

\* C23: create_full_graphs and create_delta_graphs, when they return, have
\* each saved exactly one chart for every unordered pair of distinct drivers
\* of car_data (n*(n-1)/2 charts for n drivers, none when n < 2), each pair
\* once with its first driver ahead of its second in car_data key order, and
\* no two pairs of a run went to the same file path.
C23_OneChartPerPair ==
    stage = "pairs" =>
        /\ output_pc \in {"create_delta_graphs", "done"} =>
              OnePerPair(LinesOf("Figure saved to"), FigurePath)
        /\ output_pc = "done" =>
              /\ OnePerPair(LinesOf("Delta graph saved to"), DeltaFigurePath)
              /\ Cardinality(files) = Len(car_data.value) * (Len(car_data.value) - 1)

\* both functions returned for three drivers
C23_Witness ==
    /\ stage = "pairs"
    /\ output_pc = "done"
    /\ Len(car_data.value) = 3
    /\ Cardinality(files) = 6

\* both functions returned for a single driver, no chart saved
C23_WitnessNoPair ==
    /\ stage = "pairs"
    /\ output_pc = "done"
    /\ Len(car_data.value) = 1
    /\ files = {}

----------------------------------------------------------------------------
(* Drivers that share a colour *)

StyleOf(d) ==
    LET k == CHOOSE i \in 1..Len(driver_styles.value) : driver_styles.value[i].Driver = d
    IN <<driver_styles.value[k].color, driver_styles.value[k].linestyle>>

\* C24: get_drivers_styles tells apart the drivers that share a colour: any
\* two distinct drivers of the list end up with different (color, linestyle)
\* styles.
C24_StylesDistinct ==
    driver_styles.status = "returned" =>
        \A d, e \in Range(drivers) : d # e => StyleOf(d) # StyleOf(e)

\* scanning the list in order, an entry whose colour no earlier entry has
\* gets 'solid' and an entry whose colour an earlier entry has gets
\* 'dotted'; the style kept for a driver is that of the driver's last entry
DottedWhenColourSeen ==
    driver_styles.status = "returned" =>
        \A d \in Range(drivers) :
            LET last == CHOOSE i \in 1..Len(drivers) :
                            drivers[i] = d /\ \A j \in (i + 1)..Len(drivers) : drivers[j] # d
            IN StyleOf(d) = <<colors[d],
                              IF \E j \in 1..(last - 1) : colors[drivers[j]] = colors[d]
                              THEN "dotted" ELSE "solid">>

----------------------------------------------------------------------------
(* The speed tables *)

\* the driver has a fastest lap whose speed trace holds a valid sample
HasValidSpeed(d) == Valid(get_driver_speed_column(laps, d)) # <<>>

\* one row for every driver of the results with valid speed data, none for
\* the others, in descending order of Speed
SpeedTableOf(T) ==
    /\ \A k \in 1..Len(results) :
          Cardinality({i \in 1..Len(T) : T[i].Driver = results[k].Abbreviation})
              = IF HasValidSpeed(results[k].Abbreviation) THEN 1 ELSE 0
    /\ \A i \in 1..Len(T) : \E k \in 1..Len(results) : results[k].Abbreviation = T[i].Driver
    /\ \A i \in 1..(Len(T) - 1) : ~SpeedGt(T[i + 1].Speed, T[i].Speed)

\* C25: each of get_drivers_min_speeds, get_drivers_mean_speeds and
\* get_drivers_max_speeds returns, without error whatever the number of
\* drivers with valid data, a (possibly empty) table with one row per driver
\* of the session results that has valid speed data on their fastest lap and
\* no row for a driver without a fastest lap or without valid speed data,
\* sorted in descending order of Speed.
C25_SpeedTables ==
    stage = "speeds" =>
        \A k \in 1..Len(speed_calls) :
            /\ speed_calls[k].status = "returned"
            /\ SpeedTableOf(speed_calls[k].value)

\* the tables that are returned are as C25 describes them
SpeedTablesWhenReturned ==
    stage = "speeds" =>
        \A k \in 1..Len(speed_calls) :
            speed_calls[k].status = "returned" => SpeedTableOf(speed_calls[k].value)

----------------------------------------------------------------------------
(* The empty tables of the fastest-lap sector selection *)

\* C26: when no supplied driver has a valid fastest lap (an empty driver
\* list included), get_fastest_lap_sectors of sectors-comparisons returns
\* without error, for each of the three sectors, an empty table (with an
\* empty Delta column).
C26_EmptyTablesReturned ==
    (/\ stage = "sectors"
     /\ sectors_dict.status # "not_called"
     /\ \A i \in 1..Len(drivers) : ~HasValidLap(drivers[i])) =>
        /\ sectors_dict.status = "returned"
        /\ \A s \in SectorSet : sectors_dict.value[s] = <<>>

----------------------------------------------------------------------------
(* What get_lap changes in car_data *)

Without(car, d) == SelectSeq(car, LAMBDA e : e.Driver # d)

\* C27: a get_lap call that returns has added or overwritten exactly the
\* entry car_data[driver] and left every other entry as it was; a call that
\* raises (selector matching no lap, malformed selector, telemetry that
\* cannot be retrieved) leaves car_data exactly as it was before the call.
\* After main's two calls with two distinct drivers car_data holds exactly
\* two entries, in the order driver1, driver2.
C27_GetLapFrame ==
    stage = "lap-telemetry" =>
        /\ \A k \in 1..Len(get_lap_calls) :
              LET before == CarDataBefore(k)
                  after == get_lap_calls[k].value
              IN IF get_lap_calls[k].status = "returned"
                 THEN /\ Without(after, drivers[k]) = Without(before, drivers[k])
                      /\ Cardinality({i \in 1..Len(after) : after[i].Driver = drivers[k]}) = 1
                      /\ \A i, j \in 1..Len(after) :
                            (i < j /\ after[j].Driver = drivers[k]) =>
                                \E m \in 1..Len(before) : before[m].Driver = after[i].Driver
                 ELSE after = before
        /\ (/\ Len(get_lap_calls) = 2
            /\ get_lap_calls[2].status = "returned"
            /\ drivers[1] # drivers[2]) =>
              /\ Len(get_lap_calls[2].value) = 2
              /\ get_lap_calls[2].value[1].Driver = drivers[1]
              /\ get_lap_calls[2].value[2].Driver = drivers[2]

\* the second call raised for want of telemetry after the first had stored
\* the lap of another driver
C27_Witness ==
    /\ stage = "lap-telemetry" /\ Len(get_lap_calls) = 2
    /\ get_lap_calls[2].status = "DataNotLoadedError"
    /\ drivers[1] # drivers[2]
    /\ Len(get_lap_calls[2].value) = 1

\* both calls returned, for two distinct drivers
C27_WitnessTwoEntries ==
    /\ stage = "lap-telemetry" /\ Len(get_lap_calls) = 2
    /\ get_lap_calls[2].status = "returned"
    /\ drivers[1] # drivers[2]

----------------------------------------------------------------------------
(* What fill_missing_laps changes *)

\* the table handed to the t-th call of fill_missing_laps of the run
FillInput(t) ==
    IF stage = "laps-comparisons"
    THEN SelectSeq(WithLapTimeSeconds(pick_wo_box(pick_drivers(laps, drivers[t]))), GreenFlag)
    ELSE WithLapTimeSeconds(pick_wo_box(laps))

\* C28: fill_missing_laps changes nothing but the 'LapTime (s)' value of
\* laps whose LapTime is missing: the returned table has the laps of the
\* table it was given, in the same order, each with every column as it was
\* (LapTime and the sector columns included) except 'LapTime (s)', and
\* 'LapTime (s)' as it was for every lap whose LapTime is present.
C28_FillFrame ==
    \A t \in 1..Len(filled_laps) :
        /\ Len(filled_laps[t]) = Len(FillInput(t))
        /\ \A i \in 1..Len(filled_laps[t]) :
              LET before == FillInput(t)[i]
                  after == filled_laps[t][i]
              IN /\ DOMAIN after = DOMAIN before
                 /\ \A f \in DOMAIN before \ {"LapTime (s)"} : after[f] = before[f]
                 /\ before.LapTime # NaT => after["LapTime (s)"] = before["LapTime (s)"]

\* a returned table of get_laps' call with a backfilled lap and a lap left
\* without a time
C28_Witness ==
    /\ stage = "race_pace_strategies" /\ pc = 1
    /\ \E i, j \in 1..Len(filled_laps[1]) :
          /\ filled_laps[1][i].LapTime = NaT
          /\ filled_laps[1][i]["LapTime (s)"] = NaN
          /\ filled_laps[1][j].LapTime = NaT
          /\ filled_laps[1][j]["LapTime (s)"] # NaN

\* a returned table of pick_racelaps with a timed lap, whose sectors are
\* missing, and a lap left without a time
C28_WitnessRacelaps ==
    /\ stage = "laps-comparisons" /\ pc = 1
    /\ \E t \in 1..Len(filled_laps) : \E i, j \in 1..Len(filled_laps[t]) :
          /\ filled_laps[t][i].LapTime # NaT
          /\ ~AllSectorsPresent(filled_laps[t][i])
          /\ filled_laps[t][j].LapTime = NaT
          /\ filled_laps[t][j]["LapTime (s)"] = NaN

----------------------------------------------------------------------------
(* Best sector against the sector of the fastest lap *)

\* the reference of the fastest-lap table of sector s is the session best
SameReference(s) ==
    fastest_lap_sectors.value[s].Time = total_seconds(ColumnMin(laps, s))

\* rows of the same driver: the individual-sector row is not slower
NotSlower(individual, lap, deltas) ==
    \A i \in 1..Len(individual) : \A j \in 1..Len(lap) :
        individual[i].Driver = lap[j].Driver =>
            /\ FLe(individual[i].Time, lap[j].Time)
            /\ deltas => FLe(individual[i].Delta, lap[j].Delta)

\* C29: for every driver and sector with a row both in the fastest-lap
\* sector table and in the fastest-individual-sector table computed from the
\* same session laps, the individual-sector Time is less than or equal to
\* the fastest-lap Time, and so is the Delta when both tables use the same
\* reference.
C29_BestSectorNotSlower ==
    /\ (fl_sectors_dict.status = "returned" /\ fastest_sectors_dict.status = "returned") =>
          \A k \in 1..3 :
              NotSlower(fastest_sectors_dict.value[k], fl_sectors_dict.value[k],
                        SameReference(SectorNames[k]))
    /\ (sectors_dict.status = "returned" /\ fastest_sector_data.status = "returned") =>
          \A s \in SectorSet :
              NotSlower(fastest_sector_data.value.time[s], sectors_dict.value[s], FALSE)

\* the same, for the rows of the fastest-lap tables that have a Time
BestSectorNotSlowerWhenTimed ==
    LET Timed(T) == SelectSeq(T, LAMBDA r : r.Time # NaN)
    IN /\ (fl_sectors_dict.status = "returned" /\ fastest_sectors_dict.status = "returned") =>
             \A k \in 1..3 :
                 NotSlower(fastest_sectors_dict.value[k], Timed(fl_sectors_dict.value[k]),
                           SameReference(SectorNames[k]))
       /\ (sectors_dict.status = "returned" /\ fastest_sector_data.status = "returned") =>
             \A s \in SectorSet :
                 NotSlower(fastest_sector_data.value.time[s], Timed(sectors_dict.value[s]),
                           FALSE)

----------------------------------------------------------------------------
(* The two race-lap pipelines *)

OfDriver(T, d) == SelectSeq(T, LAMBDA l : l.Driver = d)

WithTime(T) == SelectSeq(T, LAMBDA l : ~isna(l["LapTime (s)"]))

ClassifiedIn(R, d) == DriverNumber(d) \in ClassifiedNumbers(R)

\* C30: the two race-lap pipelines agree whatever the order of filtering and
\* backfilling: for every classified driver, the laps with a non-missing
\* 'LapTime (s)' that pick_racelaps gives for the driver are the driver's
\* laps in the table of get_laps, with the same 'LapTime (s)' for each lap.
C30_PipelinesAgree ==
    /\ (stage = "race_pace_strategies" /\ transformed_laps.status = "returned") =>
          \A d \in AllDrivers :
              ClassifiedIn(results, d) =>
                  OfDriver(transformed_laps.value.transformed_laps, d)
                      = WithTime(pick_racelaps(laps, <<d>>).value[d])
    /\ (stage = "laps-comparisons" /\ race_laps.status = "returned") =>
          \A d \in Range(drivers) : \A R \in RaceResults :
              ClassifiedIn(R, d) =>
                  WithTime(race_laps.value[d]) = OfDriver(RPS_transformed_laps(laps, R), d)

\* get_laps kept a backfilled lap of a classified driver and left out a lap
\* of the same driver run under a neutralisation
C30_Witness ==
    /\ stage = "race_pace_strategies" /\ transformed_laps.status = "returned"
    /\ \E i \in 1..Len(transformed_laps.value.transformed_laps) :
          LET l == transformed_laps.value.transformed_laps[i]
          IN /\ l.LapTime = NaT
             /\ ClassifiedIn(results, l.Driver)
             /\ \E j \in 1..Len(laps) :
                   /\ laps[j].Driver = l.Driver
                   /\ ~GreenFlag(laps[j])
                   /\ laps[j].PitInTime = NaT /\ laps[j].PitOutTime = NaT

\* pick_racelaps did the same for a supplied driver
C30_WitnessRacelaps ==
    /\ stage = "laps-comparisons" /\ race_laps.status = "returned"
    /\ \E d \in Range(drivers) :
          /\ \E i \in 1..Len(race_laps.value[d]) :
                race_laps.value[d][i].LapTime = NaT /\ ~isna(race_laps.value[d][i]["LapTime (s)"])
          /\ Len(race_laps.value[d]) < Len(pick_drivers(laps, d))

====
